---- MODULE Spec2Model ----
(***************************************************************************)
(* Model of AioRepositor: the generated repository (repo_factory.py), the  *)
(* shared connection manager (db_connection.py), the repository cache and  *)
(* singleton life cycle (repo_factory.py, aiorepositor.py) and the member  *)
(* splitter of the DDL parser (schema_parser.py).                          *)
(*                                                                         *)
(* The repository operations are modelled on two tables                    *)
(*     t(id INTEGER PRIMARY KEY, name TEXT NOT NULL,                       *)
(*       note TEXT DEFAULT 'dflt')                                         *)
(*     u(id INTEGER PRIMARY KEY, t_id INTEGER, tag TEXT UNIQUE,            *)
(*       FOREIGN KEY(t_id) REFERENCES t(id) ON DELETE CASCADE)             *)
(* A row is the tuple of its column values in declaration order; a record  *)
(* (RepoData instance) is the mapping field -> value.  An integer None is  *)
(* NoId, a text None is None.                                              *)
(***************************************************************************)
EXTENDS Integers, Sequences, FiniteSets, TLC

\* ------------------------------------------------------------------ bounds
MaxId == 2          \* row ids are 1..MaxId
MaxBatch == 2       \* longest record list the caller holds
MaxLen == 5         \* longest table body given to the member splitter
MaxMembers == 3     \* most members of a table, most clauses of a statement
MaxTasks == 2       \* callers that run a repository operation at the same time

\* ------------------------------------------------------------------ values
NoId == 0
None == "None"
Ids == 1 .. MaxId
Names == {"Alice"}
Notes == {"x"}
Tags == {"a"}

Range(s) == {s[i] : i \in 1 .. Len(s)}

\* the members of a definition of a table, in declaration order: definition
\* "v1" is the one in the head of this module, "v2" is another one for the
\* same table name (for u: without the FOREIGN KEY member)
Members(table_name, definition) ==
    IF table_name = "t"
    THEN (IF definition = "v1" THEN <<"id", "name", "note">> ELSE <<"id", "name">>)
    ELSE (IF definition = "v1" THEN <<"id", "t_id", "tag", "FOREIGN KEY(t_id)">>
          ELSE <<"id", "t_id", "tag">>)

\* schema_fields.keys() of the repository of a table made from definition "v1"
schema_fields(table_name) == Members(table_name, "v1")

\* the keyword a member name starts with, "" for a plain identifier
Keyword(member) == IF member = "FOREIGN KEY(t_id)" THEN "FOREIGN KEY" ELSE ""

\* generate_sql: the data columns of a table (fields_for_dataclass), which are
\* also its columns in the CREATE TABLE statement, in this order
_fields(table_name) ==
    SelectSeq(schema_fields(table_name),
              LAMBDA member : Keyword(member) \notin {"PRIMARY KEY", "UNIQUE", "CHECK", "FOREIGN KEY"})
FieldSet(table_name) == Range(_fields(table_name))

\* the integer columns; the others are text
IntegerColumns == {"id", "t_id"}
NoneOf(k) == IF k \in IntegerColumns THEN NoId ELSE None

\* RepoData instances the caller can construct (every field defaults to None)
RepoData(table_name) ==
    IF table_name = "t"
    THEN [id : Ids \cup {NoId}, name : Names \cup {None}, note : Notes \cup {None}]
    ELSE [id : Ids \cup {NoId}, t_id : Ids \cup {NoId}, tag : Tags \cup {None}]

\* keyword arguments **kwargs: a mapping from some of the fields to values.
\* A key that is not passed holds the marker Absent / AbsentId.
AbsentId == -1
Absent == "absent"
AbsentOf(k) == IF k \in IntegerColumns THEN AbsentId ELSE Absent
\* "Bob" is a name no record carries
Filters(table_name) ==
    IF table_name = "t"
    THEN [id : Ids \cup {NoId, AbsentId}, name : Names \cup {"Bob", None, Absent},
          note : Notes \cup {None, Absent}, order : {<<>>}]
    ELSE [id : Ids \cup {AbsentId}, t_id : Ids \cup {AbsentId}, tag : {Absent}, order : {<<>>}]
Keys(kwargs) == {k \in DOMAIN kwargs \ {"order"} : kwargs[k] # AbsentOf(k)}
\* the orders in which the caller can write the keys S: order is kwargs.keys()
KeyOrders(S) == {o \in [1 .. Cardinality(S) -> S] : \A i, j \in DOMAIN o : o[i] = o[j] => i = j}
\* the filters written in any order
KwargsAnyOrder(table_name) ==
    UNION {{[f EXCEPT !.order = o] : o \in KeyOrders(Keys(f))} : f \in Filters(table_name)}
\* the filters written in the order of declaration of the columns
Kwargs(table_name) ==
    {kwargs \in KwargsAnyOrder(table_name) :
        kwargs.order = SelectSeq(_fields(table_name), LAMBDA k : k \in Keys(kwargs))}
NoKwargs == [id |-> AbsentId, name |-> Absent, note |-> Absent, order |-> <<>>]

\* points of one _execute call at which the engine can fail
FailPoints == {"connect", "begin", "execute", "fetch", "commit", "rollback"}
\* the failures injected into one _execute call: none, one point, or a failing
\* statement together with a failing rollback
Faults == {{}} \cup {{p} : p \in FailPoints} \cup {{"execute", "rollback"}}
\* the injected failures that a call with these flags can meet
FaultsOf(transaction, commit, fetching) ==
    {F \in Faults : /\ ("begin" \in F \/ "rollback" \in F) => transaction
                    /\ "commit" \in F => commit /\ ~fetching
                    /\ "fetch" \in F => fetching}

VARIABLES
    table,      \* committed content of table t in the store: a set of rows
    child,      \* committed content of table u in the store: a set of rows
    conn,       \* DatabaseConnection.conn: "None", or the open connection
    dbc,        \* DatabaseConnection._instance: whether it exists, and its flag
    last,       \* the repository call in progress or just returned: arguments,
                \* statements issued, returned value; NoCall between calls
    prev,       \* the remembered call that returned True just before, else NoCall
    aio,        \* AioRepositor._instance: NoInstance or the singleton's fields
    instances,  \* RepositoryFactory._instances: table name -> repository
    res,        \* what the last call of the set-up interface returned
    split,      \* a call of SqlStrToDict._split_columns: the body passed and,
                \* once it has returned, the clauses returned
    sch,        \* the schema a caller hands over, and what the parser, the
                \* validator, the SQL generator and the record type factory
                \* have made of it so far
    co          \* concurrent callers: the position of each task in _execute,
                \* DatabaseConnection.conn, the connections of the engine and
                \* the committed content of table t

vars == <<table, child, conn, dbc, last, prev, aio, instances, res, split, sch, co>>
repoVars == <<table, child, conn, last, prev>>

\* the store: table name -> rows
db == [t |-> table, u |-> child]

\* ------------------------------------------------------------------ engine
\* (SQLite behind aiosqlite: what conn.execute does with the statements the
\*  repository builds, on the tables that CREATE TABLE made)
TableNames == {"t", "u"}
\* the columns of each table, in the order of its CREATE TABLE statement
Columns == [tn \in TableNames |-> _fields(tn)]
\* the position of a column in the rows of its table
ColumnIndex ==
    [k \in UNION {Range(Columns[tn]) : tn \in TableNames} |->
        CHOOSE i \in 1 .. 3 : \E tn \in TableNames : i <= Len(Columns[tn]) /\ Columns[tn][i] = k]
ColIdx(k) == ColumnIndex[k]
\* the column constraints of the tables
NotNull(table_name) == IF table_name = "t" THEN {"name"} ELSE {}
Unique(table_name) == IF table_name = "u" THEN {"tag"} ELSE {}
\* the columns of a table that reference t(id)
ForeignKeys(table_name) == IF table_name = "u" THEN {"t_id"} ELSE {}

RowIds(tbl) == {r[1] : r \in tbl}
Max(S) == CHOOSE m \in S : \A n \in S : n <= m
NewRowid(tbl) == IF tbl = {} THEN 1 ELSE Max(RowIds(tbl)) + 1

\* name = :name with SQL semantics: a NULL parameter matches no row
Matches(row, keys, params) ==
    \A k \in keys : params[k] # NoneOf(k) /\ row[ColIdx(k)] = params[k]

SortById(S) ==
    [i \in 1 .. Cardinality(S) |-> CHOOSE r \in S : Cardinality({q \in S : q[1] < r[1]}) = i - 1]

\* the rows a LIMIT 1 select may return: any one matching row
LimitChoices(tbl, query, params) ==
    LET m == {r \in tbl : query.where.all \/ Matches(r, Range(query.where.conds), params)}
    IN IF m = {} THEN {NoId} ELSE RowIds(m)

NoCursor == [ok |-> FALSE, db |-> <<>>, rows |-> <<>>, lastrowid |-> NoId, rowcount |-> 0]

\* ON DELETE CASCADE, when foreign keys are enforced: the rows of u that
\* reference a removed row of t go with it
Cascade(store, table_name, gone, fk) ==
    IF fk /\ table_name = "t"
    THEN [store EXCEPT !.u = {r \in @ : r[ColIdx("t_id")] \notin RowIds(gone)}]
    ELSE store

\* the DEFAULT of a column, which the engine stores for a column that the
\* column list of an INSERT leaves out: NULL when none is declared
DefaultOf(table_name, k) == IF table_name = "t" /\ k = "note" THEN "dflt" ELSE NoneOf(k)

EngineInsert(store, query, params, fk) ==
    LET tbl == store[query.table]
        cols == Columns[query.table]
        given(k) == \E i \in 1 .. Len(query.cols) : query.cols[i] = k
        val(k) == IF given(k) THEN params[k] ELSE DefaultOf(query.table, k)
        rowid == IF val("id") = NoId THEN NewRowid(tbl) ELSE val("id")
        row == [i \in 1 .. Len(cols) |-> IF cols[i] = "id" THEN rowid ELSE val(cols[i])]
        \* OR REPLACE: the rows in conflict on the primary key or on a UNIQUE column
        replaced == {r \in tbl : \/ r[1] = rowid
                                 \/ \E k \in Unique(query.table) :
                                       val(k) # NoneOf(k) /\ r[ColIdx(k)] = val(k)}
    IN IF \E k \in NotNull(query.table) : val(k) = NoneOf(k)   \* NOT NULL constraint failed
       THEN NoCursor
       ELSE IF rowid \notin Ids         \* no row id left (database or disk is full)
       THEN NoCursor
       ELSE IF fk /\ \E k \in ForeignKeys(query.table) :    \* FOREIGN KEY constraint failed
                       val(k) # NoneOf(k) /\ val(k) \notin RowIds(store.t)
       THEN NoCursor
       ELSE [ok |-> TRUE,
             db |-> Cascade([store EXCEPT ![query.table] = (tbl \ replaced) \cup {row}],
                            query.table, replaced, fk),
             rows |-> <<>>, lastrowid |-> rowid, rowcount |-> 1]

EngineDelete(store, query, params, fk) ==
    LET tbl == store[query.table]
        gone == {r \in tbl : query.where.all \/ Matches(r, Range(query.where.conds), params)}
    IN [ok |-> TRUE,
        db |-> Cascade([store EXCEPT ![query.table] = tbl \ gone], query.table, gone, fk),
        \* the rows of a RETURNING * clause: the deleted rows
        rows |-> IF query.kind = "DELETE RETURNING" THEN SortById(gone) ELSE <<>>,
        lastrowid |-> NoId, rowcount |-> Cardinality(gone)]

EngineSelect(store, query, params, pick) ==
    LET tbl == store[query.table]
        m == {r \in tbl : query.where.all \/ Matches(r, Range(query.where.conds), params)}
        lim == IF query.limit THEN {r \in m : r[1] = pick} ELSE m
        sorted == SortById(lim)
        \* the selected columns of a row: all of them for SELECT *
        result(r) == IF query.cols = <<>> THEN r
                     ELSE [i \in 1 .. Len(query.cols) |-> r[ColIdx(query.cols[i])]]
    IN [ok |-> TRUE, db |-> store,
        rows |-> IF query.kind = "SELECT COUNT(*)" THEN << <<Cardinality(m)>> >>
                 ELSE [j \in 1 .. Len(sorted) |-> result(sorted[j])],
        lastrowid |-> NoId, rowcount |-> -1]

\* conn.execute(query, params) on a connection that enforces foreign keys or not
EngineExecute(store, query, params, pick, fk) ==
    IF query.kind = "INSERT OR REPLACE" THEN EngineInsert(store, query, params, fk)
    ELSE IF ~query.where.all /\ query.where.conds = <<>>
         THEN NoCursor                  \* "... WHERE " is a syntax error
    ELSE IF query.kind \in {"DELETE", "DELETE RETURNING"} THEN EngineDelete(store, query, params, fk)
    ELSE EngineSelect(store, query, params, pick)

\* ------------------------------------------------ DatabaseConnection scope
aexit_keep(c) == c

\* __aenter__: connects when there is no connection, and then turns foreign
\* keys on if the manager's flag is set
aenter(self, c) ==
    IF c = "None"
    THEN (IF self.has_foreign_keys THEN "open, foreign_keys = ON" ELSE "open")
    ELSE c
aexit(c) == IF c # "None" THEN "None" ELSE c
\* the requests __aenter__ makes to the engine
aenter_log(self, c) ==
    IF c = "None"
    THEN <<"connect">> \o (IF self.has_foreign_keys THEN <<"PRAGMA foreign_keys = ON;">> ELSE <<>>)
    ELSE <<>>

\* ------------------------------------------------------ GeneratedRepository
\* the content of the store once _execute has left the connection scope: the
\* statement's effect if it was committed, else what was there before (closing
\* the connection drops what was not committed)
store_after_lost(tbl, changed, committed) == tbl

store_after_kept(tbl, changed, committed) == IF changed = NoCursor.db THEN tbl ELSE changed

store_after(tbl, changed, committed) == IF committed THEN changed ELSE tbl

\* the pair _execute returns, what it issued and what it left in the store:
\*   raised  an exception left _execute
\*   ok      _execute returned from its try block (not from the handler): for a
\*           call that does not fetch, the first element returned is the cursor
\*   rows    the fetched rows (fetch_all / fetch_one)
\* (c1: the connection __aenter__ gave; ex: what conn.execute does on it)
_execute_on(store, c, c1, ex, query, transaction, commit, fetch_all, fetch_one, F) ==
    LET connected == "connect" \notin F
        beganOk == transaction => "begin" \notin F
        execOk == beganOk /\ "execute" \notin F /\ ex.ok
        fetching == fetch_all \/ fetch_one
        fetchOk == execOk /\ fetching /\ "fetch" \notin F
        commitOk == execOk /\ ~fetching /\ (commit => "commit" \notin F)
        excepted == ~(fetchOk \/ commitOk)
        rollback == excepted /\ transaction
        log == (IF transaction THEN <<"BEGIN TRANSACTION;">> ELSE <<>>)
               \o (IF beganOk THEN <<query.kind>> ELSE <<>>)
               \o (IF execOk /\ fetch_all THEN <<"fetchall">> ELSE <<>>)
               \o (IF execOk /\ ~fetch_all /\ fetch_one THEN <<"fetchone">> ELSE <<>>)
               \o (IF execOk /\ ~fetching /\ commit THEN <<"commit">> ELSE <<>>)
               \o (IF rollback THEN <<"rollback">> ELSE <<>>)
    IN IF ~connected
       THEN [raised |-> TRUE, ok |-> FALSE, rows |-> <<>>, lastrowid |-> NoId,
             rowcount |-> 0, db |-> store, conn |-> c, log |-> <<"connect">>,
             opened |-> FALSE]
       ELSE [raised |-> rollback /\ "rollback" \in F,
             ok |-> ~excepted,
             rows |-> IF fetchOk THEN ex.rows ELSE <<>>,
             lastrowid |-> ex.lastrowid,
             rowcount |-> ex.rowcount,
             db |-> store_after(store, ex.db, commitOk /\ commit),
             conn |-> aexit(c1),
             log |-> aenter_log(dbc, c) \o log
                     \o (IF aexit(c1) = "None" THEN <<"close">> ELSE <<>>),
             opened |-> c = "None"]

_execute(store, c, query, params, transaction, commit, fetch_all, fetch_one, F, pick) ==
    _execute_on(store, c, aenter(dbc, c),
                EngineExecute(store, query, params, pick,
                              aenter(dbc, c) = "open, foreign_keys = ON"),
                query, transaction, commit, fetch_all, fetch_one, F)

dc_dict(data) == data

dc_to_insertion_query_noid(table_name, data) ==
    [kind |-> "INSERT OR REPLACE", table |-> table_name,
     cols |-> SelectSeq(_fields(table_name), LAMBDA k : k # "id"),
     where |-> [all |-> TRUE, conds |-> <<>>],
     limit |-> FALSE]

dc_to_insertion_query_nonnull(table_name, data) ==
    [kind |-> "INSERT OR REPLACE", table |-> table_name,
     cols |-> SelectSeq(_fields(table_name), LAMBDA k : dc_dict(data)[k] # NoneOf(k)),
     where |-> [all |-> TRUE, conds |-> <<>>],
     limit |-> FALSE]

\* the keys of data.dc_dict() are the fields of the record type, in order
dc_to_insertion_query(table_name, data) ==
    [kind |-> "INSERT OR REPLACE", table |-> table_name,
     cols |-> SelectSeq(_fields(table_name), LAMBDA k : dc_dict(data)[k] # NoneOf(k) \/ k # "id"),
     where |-> [all |-> TRUE, conds |-> <<>>],
     limit |-> FALSE]

\* the record after id_check(cursor, data); cursor is None when ~ex.ok
id_check_data(ex, data) ==
    IF ex.ok /\ data.id = NoId THEN [data EXCEPT !.id = ex.lastrowid] ELSE data

\* the value id_check returns
id_check(ex, data) == IF ex.ok THEN "True" ELSE "None"

query_conditions_unconditional(table_name, select, select_batch, delete, kwargs) ==
    IF select
    THEN [kind |-> "SELECT", table |-> table_name, cols |-> <<>>,
          where |-> [all |-> TRUE, conds |-> kwargs.order], limit |-> TRUE]
    ELSE IF select_batch
    THEN [kind |-> "SELECT", table |-> table_name, cols |-> <<>>,
          where |-> [all |-> TRUE, conds |-> kwargs.order], limit |-> FALSE]
    ELSE IF delete
    THEN [kind |-> "DELETE", table |-> table_name, cols |-> <<>>,
          where |-> [all |-> FALSE, conds |-> kwargs.order], limit |-> FALSE]
    ELSE [kind |-> "ValueError", table |-> table_name, cols |-> <<>>,
          where |-> [all |-> FALSE, conds |-> <<>>], limit |-> FALSE]

query_conditions_sorted(table_name, select, select_batch, delete, kwargs) ==
    LET sorted == SelectSeq(_fields(table_name), LAMBDA k : k \in Keys(kwargs))
    IN IF select
       THEN [kind |-> "SELECT", table |-> table_name, cols |-> <<>>,
             where |-> [all |-> FALSE, conds |-> sorted], limit |-> TRUE]
       ELSE IF select_batch
       THEN [kind |-> "SELECT", table |-> table_name, cols |-> <<>>,
             where |-> [all |-> Keys(kwargs) = {}, conds |-> sorted], limit |-> FALSE]
       ELSE IF delete
       THEN [kind |-> "DELETE", table |-> table_name, cols |-> <<>>,
             where |-> [all |-> FALSE, conds |-> sorted], limit |-> FALSE]
       ELSE [kind |-> "ValueError", table |-> table_name, cols |-> <<>>,
             where |-> [all |-> FALSE, conds |-> <<>>], limit |-> FALSE]

\* the statement query_conditions returns: conds are the columns of the
\* conditions "key = :key" in the order of kwargs.keys(), joined with AND;
\* all is the condition 1=1; limit is LIMIT 1
query_conditions(table_name, select, select_batch, delete, kwargs) ==
    IF select
    THEN [kind |-> "SELECT", table |-> table_name, cols |-> <<>>,
          where |-> [all |-> FALSE, conds |-> kwargs.order], limit |-> TRUE]
    ELSE IF select_batch
    THEN [kind |-> "SELECT", table |-> table_name, cols |-> <<>>,
          where |-> [all |-> Keys(kwargs) = {}, conds |-> kwargs.order], limit |-> FALSE]
    ELSE IF delete
    THEN [kind |-> "DELETE", table |-> table_name, cols |-> <<>>,
          where |-> [all |-> FALSE, conds |-> kwargs.order], limit |-> FALSE]
    ELSE [kind |-> "ValueError", table |-> table_name, cols |-> <<>>,
          where |-> [all |-> FALSE, conds |-> <<>>], limit |-> FALSE]

\* RepoData(**dict(zip(schema_fields.keys(), result))): the i-th member name
\* is paired with the i-th value, as far as both go
result_converter(table_name, result) ==
    LET keys == schema_fields(table_name)
        n == IF Len(keys) < Len(result) THEN Len(keys) ELSE Len(result)
    IN [k \in {keys[i] : i \in 1 .. n} |-> result[CHOOSE i \in 1 .. n : keys[i] = k]]

\* str.isidentifier() for the names of result columns
isidentifier(name) == name # "COUNT(*)"

CustomDataClass_any(column_names) == "CustomResult"

\* CustomDataClass()(column_names): make_dataclass gives the record type, or
\* raises TypeError for a name that is not an identifier or that comes twice
CustomDataClass(column_names) ==
    IF /\ \A i \in 1 .. Len(column_names) : isidentifier(column_names[i])
       /\ \A i, j \in 1 .. Len(column_names) : column_names[i] = column_names[j] => i = j
    THEN "CustomResult" ELSE "TypeError"

\* CustomDataClass()(column_names)(*row): one field per result column
CustomResult(column_names, row) ==
    [k \in {column_names[i] : i \in 1 .. Len(column_names)} |->
        row[CHOOSE i \in 1 .. Len(column_names) : column_names[i] = k]]

\* cursor.description of a statement: the names of its result columns
description(query) ==
    IF query.kind = "SELECT COUNT(*)" THEN <<"COUNT(*)">>
    ELSE IF query.cols = <<>> THEN Columns[query.table]
    ELSE query.cols

\* the statements custom_query is called with: SELECT * FROM t, SELECT name,
\* id FROM t, SELECT COUNT(*) FROM t, DELETE FROM t, DELETE FROM t RETURNING *,
\* and the malformed SELECT * FROM t WHERE
CustomQueries ==
    {[kind |-> "SELECT", table |-> "t", cols |-> <<>>, where |-> [all |-> TRUE, conds |-> <<>>], limit |-> FALSE],
     [kind |-> "SELECT", table |-> "t", cols |-> <<"name", "id">>, where |-> [all |-> TRUE, conds |-> <<>>], limit |-> FALSE],
     [kind |-> "SELECT COUNT(*)", table |-> "t", cols |-> <<>>, where |-> [all |-> TRUE, conds |-> <<>>], limit |-> FALSE],
     [kind |-> "DELETE", table |-> "t", cols |-> <<>>, where |-> [all |-> TRUE, conds |-> <<>>], limit |-> FALSE],
     [kind |-> "DELETE RETURNING", table |-> "t", cols |-> <<>>, where |-> [all |-> TRUE, conds |-> <<>>], limit |-> FALSE],
     [kind |-> "SELECT", table |-> "t", cols |-> <<>>, where |-> [all |-> FALSE, conds |-> <<>>], limit |-> FALSE]}

\* the records save_many is called with: a new record, a new record that
\* violates NOT NULL, and a record with an id
BatchData ==
    {[id |-> NoId, name |-> "Alice", note |-> None],
     [id |-> NoId, name |-> None, note |-> "x"],
     [id |-> 1, name |-> "Alice", note |-> "x"]}
DataLists == UNION {[1 .. n -> BatchData] : n \in 0 .. MaxBatch}

\* ------------------------------------------- AioRepositor, RepositoryFactory
\* the structurally different definitions a table can have
Variants == {"v1", "v2"}
\* a schema: table name -> table definition
Schemas == UNION {[S -> Variants] : S \in SUBSET TableNames}
\* the definitions that are not valid: one with a column that has no type, one
\* with a column of a type that is not an SQL type
Defects == {"no type", "bad type"}
\* the schema argument of AioRepositor: a mapping (dict), DDL text (str) that
\* holds the statements of these tables, or a value of another type
SchemaArgs ==
    {[form |-> f, tables |-> m] :
        f \in {"dict", "str"}, m \in UNION {[S -> Variants \cup Defects] : S \in SUBSET TableNames}}
    \cup {[form |-> "other", tables |-> <<>>]}
\* the other arguments of AioRepositor: folder_name, db_name and indexes, as
\* their defaults and as another choice ("None" is None)
DefaultPlace == [folder_name |-> "hive", db_name |-> "hive_1.db", indexes |-> "None"]
Places == {DefaultPlace, [folder_name |-> "data", db_name |-> "app.db", indexes |-> "name"]}
\* the order in which schema.items() yields the tables
TableOrder == <<"t", "u">>

\* the singleton's fields: schema and form are self.schema (its tables and its
\* type), arg is the schema the instance was constructed with, repositories
\* and has_repositories are self.repositories (has_repositories: it is not None)
NoInstance == [exists |-> FALSE, initialized |-> FALSE, schema |-> <<>>, form |-> "other",
               arg |-> [form |-> "other", tables |-> <<>>],
               folder_name |-> "", db_name |-> "", indexes |-> "None",
               repositories |-> <<>>, has_repositories |-> FALSE]
NoRepositories == <<>>
NoRepo == [id |-> 0, table_name |-> "", schema_fields |-> ""]
\* what a call of the set-up interface gave: the repository or the mapping
\* returned (is_none: None was returned), the error raised ("" for none), the
\* requests made to the engine, and the cache as it was before the call
NoResult == [op |-> "none", table_name |-> "", repo |-> NoRepo, repositories |-> <<>>,
             is_none |-> TRUE, raised |-> "", log |-> <<>>, before |-> <<>>]

create_repository_fresh(cache, table_name, fields) ==
    LET repo == [id |-> Cardinality(DOMAIN cache) + 1, table_name |-> table_name,
                 schema_fields |-> fields]
    IN [cache |-> [k \in DOMAIN cache \cup {table_name} |->
                      IF k = table_name THEN repo ELSE cache[k]],
        repo |-> repo]

\* RepositoryFactory.create_repository: the cache after the call and the
\* repository returned
create_repository(cache, table_name, fields) ==
    IF table_name \in DOMAIN cache
    THEN [cache |-> cache, repo |-> cache[table_name]]
    ELSE LET repo == [id |-> Cardinality(DOMAIN cache) + 1, table_name |-> table_name,
                      schema_fields |-> fields]
         IN [cache |-> [k \in DOMAIN cache \cup {table_name} |->
                           IF k = table_name THEN repo ELSE cache[k]],
             repo |-> repo]

\* RepositoryFactory.create_repositories: the cache after the first n tables
\* of the schema
RECURSIVE create_repositories_cache(_, _, _)
create_repositories_cache(cache, schema, n) ==
    IF n = 0 THEN cache
    ELSE LET c == create_repositories_cache(cache, schema, n - 1)
         IN IF TableOrder[n] \in DOMAIN schema
            THEN create_repository(c, TableOrder[n], schema[TableOrder[n]]).cache
            ELSE c

create_repositories_all(cache, schema) ==
    LET c == create_repositories_cache(cache, schema, Len(TableOrder))
    IN [cache |-> c, repositories |-> c]

\* the mapping create_repositories returns
create_repositories(cache, schema) ==
    LET c == create_repositories_cache(cache, schema, Len(TableOrder))
    IN [cache |-> c, repositories |-> [k \in DOMAIN schema |-> c[k]]]

\* the record of one repository call:
\*   op, kwargs, arg   the method and its arguments (arg: the records as passed)
\*   data              the records passed, as the call has mutated them so far
\*   i                 the number of records handled so far
\*   ret, out          the returned value: its kind and the records it holds
\*   log               the requests made to the engine, in order
\*   oks               per _execute call made: it returned from its try block
\*   opened            the call opened an engine connection
\*   pre               the content of the repository's table when the call began
\*   query             the statement built last (query.table: the repository's table)
Call(op, kwargs, arg, data, i, ret, out, log, oks, opened, pre, query) ==
    [op |-> op, kwargs |-> kwargs, arg |-> arg, data |-> data, i |-> i, ret |-> ret,
     out |-> out, log |-> log, oks |-> oks, opened |-> opened, pre |-> pre, query |-> query]

NoQuery == [kind |-> "none", table |-> "", cols |-> <<>>, where |-> [all |-> FALSE, conds |-> <<>>],
            limit |-> FALSE]

NoCall == Call("none", NoKwargs, <<>>, <<>>, 0, "None", <<>>, <<>>, <<>>, FALSE, {}, NoQuery)

Idle == last = NoCall

NoConnection == [exists |-> FALSE, db_path |-> "", has_foreign_keys |-> FALSE]

\* ---------------------------------------------- SqlStrToDict._split_columns
\* a text is the sequence of its characters; "a" stands for any character
\* that is not a comma, a parenthesis or white space
Chars == {"a", ",", "(", ")", " "}
\* the table bodies given to the splitter
Bodies == UNION {[1 .. n -> Chars] : n \in 0 .. MaxLen}

\* the characters that str.strip(), str.split() and \s take for white space
Whitespace == {" ", "\n"}
Min(S) == CHOOSE m \in S : \A n \in S : m <= n
\* str.strip()
strip(text) ==
    LET kept == {i \in 1 .. Len(text) : text[i] \notin Whitespace}
    IN IF kept = {} THEN <<>> ELSE SubSeq(text, Min(kept), Max(kept))

RECURSIVE _split_columns_loop_flat(_, _, _, _, _)
_split_columns_loop_flat(columns_str, i, parens, current_col, columns) ==
    IF i > Len(columns_str)
    THEN [parens |-> parens, current_col |-> current_col, columns |-> columns]
    ELSE LET char == columns_str[i]
         IN IF char = ","
            THEN _split_columns_loop_flat(columns_str, i + 1, parens, <<>>,
                                          Append(columns, strip(current_col)))
            ELSE _split_columns_loop_flat(columns_str, i + 1, parens,
                                          Append(current_col, char), columns)

\* the while loop of _split_columns from character i on (i counts from 1):
\* current_col and columns when it ends
RECURSIVE _split_columns_loop(_, _, _, _, _)
_split_columns_loop(columns_str, i, parens, current_col, columns) ==
    IF i > Len(columns_str)
    THEN [parens |-> parens, current_col |-> current_col, columns |-> columns]
    ELSE LET char == columns_str[i]
         IN IF char = "," /\ parens = 0
            THEN _split_columns_loop(columns_str, i + 1, parens, <<>>,
                                     Append(columns, strip(current_col)))
            ELSE _split_columns_loop(columns_str, i + 1,
                                     IF char = "(" THEN parens + 1
                                     ELSE IF char = ")" THEN parens - 1 ELSE parens,
                                     Append(current_col, char), columns)

\* the loop run over a text, from the values in state on: as the body of the
\* loop handles one character at a time, the loop over a text is the loop
\* over its first half followed by the loop over its second half (the values
\* after the first half are computed before the second half is entered)
RECURSIVE _split_columns_run(_, _)
_split_columns_run(columns_str, state) ==
    IF Len(columns_str) <= 1
    THEN _split_columns_loop(columns_str, 1, state.parens, state.current_col, state.columns)
    ELSE CHOOSE end \in
             {_split_columns_run(SubSeq(columns_str, Len(columns_str) \div 2 + 1, Len(columns_str)), half) :
                 half \in {_split_columns_run(SubSeq(columns_str, 1, Len(columns_str) \div 2), state)}} : TRUE

_split_columns(columns_str) ==
    LET end == _split_columns_run(columns_str, [parens |-> 0, current_col |-> <<>>, columns |-> <<>>])
    IN IF strip(end.current_col) # <<>>
       THEN Append(end.columns, strip(end.current_col))
       ELSE end.columns

NoSplit == [columns_str |-> <<>>, columns |-> <<>>, returned |-> FALSE]

\* ------------------------------------------------------- schema_parser.py
\* A text (str) is a string and a character is a string of length one.  An
\* ordered mapping (dict) is the sequence of its <<key, value>> items in
\* insertion order: a schema is a mapping table name -> columns, and the
\* columns of a table are a mapping member name -> definition.
Lowercase == "abcdefghijklmnopqrstuvwxyz"
Uppercase == "ABCDEFGHIJKLMNOPQRSTUVWXYZ"
Digits == "0123456789"
CharAt(text, i) == SubSeq(text, i, i)
CharsOf(text) == {CharAt(text, i) : i \in 1 .. Len(text)}
\* the characters that \w matches
WordChars == CharsOf(Lowercase) \cup CharsOf(Uppercase) \cup CharsOf(Digits) \cup {"_"}
\* list(text) and "".join(chars)
Characters(text) == [i \in 1 .. Len(text) |-> CharAt(text, i)]
RECURSIVE Text(_)
Text(chars) ==
    IF chars = <<>> THEN ""
    ELSE IF Len(chars) = 1 THEN chars[1]
    ELSE Text(SubSeq(chars, 1, Len(chars) \div 2))
         \o Text(SubSeq(chars, Len(chars) \div 2 + 1, Len(chars)))

\* str.upper()
UpperOf == [c \in CharsOf(Lowercase) |->
               CharAt(Uppercase, CHOOSE i \in 1 .. Len(Lowercase) : CharAt(Lowercase, i) = c)]
\* (character by character; the text is halved to keep the evaluation flat)
RECURSIVE upper(_)
upper(text) ==
    IF text = "" THEN ""
    ELSE IF Len(text) = 1 THEN (IF text \in DOMAIN UpperOf THEN UpperOf[text] ELSE text)
    ELSE upper(SubSeq(text, 1, Len(text) \div 2))
         \o upper(SubSeq(text, Len(text) \div 2 + 1, Len(text)))

\* str.startswith(prefix)
startswith(text, prefix) ==
    Len(text) >= Len(prefix) /\ SubSeq(text, 1, Len(prefix)) = prefix
\* str.find(sub, start) and str.rfind(sub), counting from 1: 0 when sub is
\* not found (Python: from 0, and -1)
find(text, sub, start) ==
    LET at == {i \in start .. Len(text) - Len(sub) + 1 : SubSeq(text, i, i + Len(sub) - 1) = sub}
    IN IF at = {} THEN 0 ELSE Min(at)
rfind(text, sub) ==
    LET at == {i \in 1 .. Len(text) - Len(sub) + 1 : SubSeq(text, i, i + Len(sub) - 1) = sub}
    IN IF at = {} THEN 0 ELSE Max(at)
\* str.strip() of a string
str_strip(text) ==
    LET kept == {i \in 1 .. Len(text) : CharAt(text, i) \notin Whitespace}
    IN IF kept = {} THEN "" ELSE SubSeq(text, Min(kept), Max(kept))
\* str.split(None, 1): the first word and the rest, without the white space
\* between them
str_split_1(text) ==
    LET n == Len(text)
        first == {i \in 1 .. n : CharAt(text, i) \notin Whitespace}
    IN IF first = {} THEN <<>>
       ELSE LET gaps == {i \in Min(first) .. n : CharAt(text, i) \in Whitespace}
            IN IF gaps = {} THEN <<SubSeq(text, Min(first), n)>>
               ELSE LET rest == {i \in Min(gaps) .. n : CharAt(text, i) \notin Whitespace}
                    IN IF rest = {} THEN <<SubSeq(text, Min(first), Min(gaps) - 1)>>
                       ELSE <<SubSeq(text, Min(first), Min(gaps) - 1), SubSeq(text, Min(rest), n)>>
\* str.split(): the words
RECURSIVE str_split(_)
str_split(text) ==
    IF Len(str_split_1(text)) < 2 THEN str_split_1(text)
    ELSE <<str_split_1(text)[1]>> \o str_split(str_split_1(text)[2])
\* sep.join(texts)
RECURSIVE join(_, _)
join(sep, texts) ==
    IF texts = <<>> THEN ""
    ELSE IF Len(texts) = 1 THEN texts[1]
    ELSE texts[1] \o sep \o join(sep, Tail(texts))
\* mapping[key] = value: a new key goes to the end, a key the mapping has
\* keeps its place and gets the value
setitem(mapping, key, value) ==
    IF \E i \in DOMAIN mapping : mapping[i][1] = key
    THEN [i \in DOMAIN mapping |-> IF mapping[i][1] = key THEN <<key, value>> ELSE mapping[i]]
    ELSE Append(mapping, <<key, value>>)
\* mapping.keys()
keys(mapping) == [i \in DOMAIN mapping |-> mapping[i][1]]

\* re.findall(r'CREATE TABLE.*?\);', schema_str, re.DOTALL | re.IGNORECASE)
\* from character start on: a match begins at the next CREATE TABLE and ends
\* with the first ); after it
RECURSIVE findall_statements(_, _, _)
findall_statements(schema_str, upper_str, start) ==
    LET begin == find(upper_str, "CREATE TABLE", start)
        end == IF begin = 0 THEN 0 ELSE find(schema_str, ");", begin + Len("CREATE TABLE"))
    IN IF end = 0 THEN <<>>
       ELSE <<SubSeq(schema_str, begin, end + 1)>>
            \o findall_statements(schema_str, upper_str, end + 2)

_split_statements(schema_str) == findall_statements(schema_str, upper(schema_str), 1)

\* the first position from i on whose character is not in the set
span(text, i, set) ==
    LET out == {j \in i .. Len(text) : CharAt(text, j) \notin set}
    IN IF out = {} THEN Len(text) + 1 ELSE Min(out)
\* the group of  <keywords>\s+(\w+)\s*\(  matched at position i, "" when it
\* does not match there
match_name(statement, upper_statement, i, keywords) ==
    LET a == i + Len(keywords)
        b == span(statement, a, Whitespace)
        c == span(statement, b, WordChars)
        d == span(statement, c, Whitespace)
    IN IF /\ a - 1 <= Len(statement)
          /\ SubSeq(upper_statement, i, a - 1) = keywords
          /\ b > a
          /\ c > b
          /\ d <= Len(statement)
          /\ CharAt(statement, d) = "("
       THEN SubSeq(statement, b, c - 1) ELSE ""
\* re.search(...).group(1), "" when there is no match
search_name(statement, upper_statement, keywords) ==
    LET at == {i \in 1 .. Len(statement) : match_name(statement, upper_statement, i, keywords) # ""}
    IN IF at = {} THEN "" ELSE match_name(statement, upper_statement, Min(at), keywords)

\* the table name, "" for ValueError("Table name not found in statement.")
_extract_table_name(statement) ==
    IF search_name(statement, upper(statement), "CREATE TABLE IF NOT EXISTS") # ""
    THEN search_name(statement, upper(statement), "CREATE TABLE IF NOT EXISTS")
    ELSE search_name(statement, upper(statement), "CREATE TABLE")

\* <<column_name, column_def>>, <<>> for ValueError("Invalid column definition")
_parse_column(column_str) ==
    IF Len(str_split_1(column_str)) = 2
    THEN <<str_strip(str_split_1(column_str)[1]), str_strip(str_split_1(column_str)[2])>>
    ELSE <<>>

\* <<key, value>> of a constraint clause
_parse_constraint(constraint_str) ==
    LET s == str_strip(constraint_str)
        key_end == find(s, ")", 1)
    IN IF startswith(upper(s), "FOREIGN KEY")
       THEN <<str_strip(SubSeq(s, 1, key_end)), str_strip(SubSeq(s, key_end + 1, Len(s)))>>
       ELSE IF startswith(upper(s), "PRIMARY KEY")
       THEN (IF key_end # 0
             THEN <<"PRIMARY KEY", str_strip(SubSeq(s, Len("PRIMARY KEY") + 1, Len(s)))>>
             ELSE <<str_strip(str_split_1(s)[1]), str_strip(str_split_1(s)[2])>>)
       ELSE <<str_strip(str_split(s)[1]), str_strip(join(" ", Tail(str_split(s))))>>

\* the loop of _extract_columns from clause i on: the columns, or the error
\* raised
RECURSIVE _extract_columns_loop(_, _, _)
_extract_columns_loop(columns_list, i, columns) ==
    IF i > Len(columns_list) THEN [raised |-> "", columns |-> columns]
    ELSE LET col == str_strip(columns_list[i])
         IN IF col = "" THEN _extract_columns_loop(columns_list, i + 1, columns)
            ELSE IF startswith(upper(col), "FOREIGN KEY") \/ startswith(upper(col), "PRIMARY KEY")
            THEN _extract_columns_loop(columns_list, i + 1,
                     setitem(columns, _parse_constraint(col)[1], _parse_constraint(col)[2]))
            ELSE IF _parse_column(col) = <<>> THEN [raised |-> "ValueError", columns |-> <<>>]
            ELSE _extract_columns_loop(columns_list, i + 1,
                     setitem(columns, _parse_column(col)[1], _parse_column(col)[2]))

\* re.search(r'\((.*)\)', statement, re.DOTALL): from the first ( to the
\* last ), then the clauses of the text between them
_extract_columns(statement) ==
    LET open == find(statement, "(", 1)
        close == rfind(statement, ")")
        columns_str == SubSeq(statement, open + 1, close - 1)
        columns_list == _split_columns(Characters(columns_str))
    IN IF open = 0 \/ close < open THEN [raised |-> "ValueError", columns |-> <<>>]
       ELSE _extract_columns_loop([i \in DOMAIN columns_list |-> Text(columns_list[i])], 1, <<>>)

\* the loop of parse from statement i on
RECURSIVE parse_loop(_, _, _)
parse_loop(statements, i, tables) ==
    IF i > Len(statements) THEN [raised |-> "", tables |-> tables]
    ELSE IF _extract_table_name(statements[i]) = "" \/ _extract_columns(statements[i]).raised # ""
    THEN [raised |-> "ValueError", tables |-> <<>>]
    ELSE parse_loop(statements, i + 1,
                    setitem(tables, _extract_table_name(statements[i]),
                            _extract_columns(statements[i]).columns))

\* SqlStrToDict(schema_str).parse(): self.tables, or the error raised
SqlStrToDict_parse(schema_str) == parse_loop(_split_statements(schema_str), 1, <<>>)

\* col_name.startswith(("PRIMARY KEY", "UNIQUE", "CHECK", "FOREIGN KEY"))
startswith_constraint(col_name) ==
    \E keyword \in {"PRIMARY KEY", "UNIQUE", "CHECK", "FOREIGN KEY"} : startswith(col_name, keyword)
\* generate_sql for one table: the items that go to column_defs, and those
\* that go to constraints
column_defs(columns) == SelectSeq(columns, LAMBDA item : ~startswith_constraint(item[1]))
constraints(columns) == SelectSeq(columns, LAMBDA item : startswith_constraint(item[1]))
fields_for_dataclass(columns) == keys(column_defs(columns))
\* f"{col_name} {col_type}" of each item
rendered(items) == [i \in DOMAIN items |-> items[i][1] \o " " \o items[i][2]]
create_table_sql(table_name, columns) ==
    "CREATE TABLE IF NOT EXISTS " \o table_name \o " (\n    "
    \o join(",\n    ", rendered(column_defs(columns)) \o rendered(constraints(columns)))
    \o "\n);"
\* the CREATE INDEX statements of a table: one per member named in idxs
indexes(table_name, columns, idxs) ==
    LET hinted == SelectSeq(keys(columns), LAMBDA col_name : col_name \in idxs)
    IN [i \in DOMAIN hinted |->
           "CREATE INDEX IF NOT EXISTS idx_" \o table_name \o "_" \o hinted[i]
           \o " ON " \o table_name \o " (" \o hinted[i] \o ");"]
\* sql_statements of the tables from i on
RECURSIVE sql_statements(_, _, _)
sql_statements(schema, idxs, i) ==
    IF i > Len(schema) THEN <<>>
    ELSE <<create_table_sql(schema[i][1], schema[i][2])>>
         \o indexes(schema[i][1], schema[i][2], idxs)
         \o sql_statements(schema, idxs, i + 1)
\* SchemaParser.generate_sql(schema, idxs): the script and dataclass_fields
generate_sql(schema, idxs) ==
    [sql |-> join("\n\n", sql_statements(schema, idxs, 1)),
     dataclass_fields |-> [i \in DOMAIN schema |-> <<schema[i][1], fields_for_dataclass(schema[i][2])>>]]

default_sql_types == {"INTEGER", "TEXT", "REAL", "BLOB", "BOOLEAN", "DECIMAL", "TIMESTAMP"}
\* the body of the loops of validate for one column: the error it raises with
\* the type it names, raised = "" when the loop goes on
validate_column(column_name, column_type) ==
    LET base_sql_type == upper(str_split(column_type)[1])
        stripped == IF find(base_sql_type, "(", 1) = 0 THEN base_sql_type
                    ELSE SubSeq(base_sql_type, 1, find(base_sql_type, "(", 1) - 1)
    IN IF \E keyword \in {"PRIMARY KEY", "FOREIGN KEY", "CHECK", "UNIQUE"} :
              startswith(column_name, keyword)
       THEN [raised |-> "", type |-> ""]
       ELSE IF str_split(column_type) = <<>> THEN [raised |-> "IndexError", type |-> ""]
       ELSE IF base_sql_type \in {"PRIMARY", "FOREIGN", "CHECK", "UNIQUE"}
       THEN [raised |-> "", type |-> ""]
       ELSE IF stripped \notin default_sql_types THEN [raised |-> "ValueError", type |-> stripped]
       ELSE [raised |-> "", type |-> ""]
\* the items of the schema in the order the two loops visit them:
\* <<table, column_name, column_type>>
RECURSIVE items_of(_, _)
items_of(schema, i) ==
    IF i > Len(schema) THEN <<>>
    ELSE [j \in DOMAIN schema[i][2] |-> <<schema[i][1], schema[i][2][j][1], schema[i][2][j][2]>>]
         \o items_of(schema, i + 1)
\* SchemaValidator.validate(schema): returned = TRUE, or the error raised at
\* the first column in error, with the table, column and type it names
SchemaValidator_validate(schema) ==
    LET visited == items_of(schema, 1)
        bad == {k \in DOMAIN visited : validate_column(visited[k][2], visited[k][3]).raised # ""}
    IN IF bad = {}
       THEN [returned |-> TRUE, raised |-> "", table |-> "", column |-> "", type |-> ""]
       ELSE [returned |-> FALSE,
             raised |-> validate_column(visited[Min(bad)][2], visited[Min(bad)][3]).raised,
             table |-> visited[Min(bad)][1], column |-> visited[Min(bad)][2],
             type |-> validate_column(visited[Min(bad)][2], visited[Min(bad)][3]).type]

\* RepoDataClass.field_type(field_name): the type of the field (its default
\* is None)
type_map ==
    [INTEGER |-> "int", TEXT |-> "str", REAL |-> "float", BLOB |-> "bytes",
     BOOLEAN |-> "bool", DECIMAL |-> "float", TIMESTAMP |-> "str"]
field_type(field_name) ==
    IF field_name = "id" THEN "int"
    ELSE IF upper(field_name) \in DOMAIN type_map THEN type_map[upper(field_name)] ELSE "str"
\* RepoDataClass()(table_name, _fields): the fields of the record type
RepoDataClass(field_names) ==
    [i \in DOMAIN field_names |->
        [name |-> field_names[i], type |-> field_type(field_names[i]), default |-> None]]

\* ------------------------------------------- from a schema to record types
\* the members a caller writes into the tables of a structured schema
MemberPool ==
    {<<"id", "INTEGER PRIMARY KEY">>, <<"price", "DECIMAL(10,2)">>, <<"x", "FOO">>,
     <<"CHECKSUM", "TEXT">>, <<"code", "UNIQUE NOT NULL">>, <<"t_id", "integer">>,
     <<"FOREIGN KEY(t_id)", "REFERENCES t(id)">>, <<"UNIQUE(price)", "">>}
\* the mappings member name -> definition of at most n members
TableDefinitions(n) ==
    UNION {{columns \in [1 .. k -> MemberPool] :
               \A i, j \in 1 .. k : columns[i][1] = columns[j][1] => i = j} : k \in 0 .. n}
\* the structured schemas: table t alone, or tables t and u of one member each
StructuredSchemas ==
    {<<<<"t", columns>>>> : columns \in TableDefinitions(MaxMembers)}
    \cup {<<<<"t", columns>>, <<"u", others>>>> :
             columns \in TableDefinitions(1) \ {<<>>}, others \in TableDefinitions(1) \ {<<>>}}
\* the index hints
IndexHints == {{}, {"price"}}

\* the clauses a caller writes into the body of a CREATE TABLE statement:
\* the text, the column the clause declares ("" for a table constraint), the
\* columns it refers to, and whether it declares the primary key
ClausePool ==
    {[clause |-> "id INTEGER PRIMARY KEY", column |-> "id", uses |-> {}, key |-> TRUE],
     [clause |-> "price DECIMAL(10, 2) NOT NULL", column |-> "price", uses |-> {}, key |-> FALSE],
     [clause |-> "rating INTEGER CHECK(rating >= 1 AND rating <= 5)", column |-> "rating",
      uses |-> {}, key |-> FALSE],
     [clause |-> "payload", column |-> "payload", uses |-> {}, key |-> FALSE],
     [clause |-> "UNIQUE(price)", column |-> "", uses |-> {"price"}, key |-> FALSE],
     [clause |-> "CHECK (price > 0)", column |-> "", uses |-> {"price"}, key |-> FALSE],
     [clause |-> "CHECK (price < 100)", column |-> "", uses |-> {"price"}, key |-> FALSE],
     [clause |-> "FOREIGN KEY(rating) REFERENCES t(id)", column |-> "", uses |-> {"rating"},
      key |-> FALSE],
     [clause |-> "PRIMARY KEY(price, rating)", column |-> "", uses |-> {"price", "rating"},
      key |-> TRUE]}
\* the bodies the engine accepts: column definitions first, then table
\* constraints on the columns defined, no clause twice, one primary key at most
StatementBodies(n) ==
    UNION {{body \in [1 .. k -> ClausePool] :
               /\ \A i, j \in 1 .. k : body[i] = body[j] => i = j
               /\ body[1].column # ""
               /\ \A i, j \in 1 .. k : i < j /\ body[i].column = "" => body[j].column = ""
               /\ \A i \in 1 .. k : body[i].uses \subseteq {body[j].column : j \in 1 .. k}
               /\ \A i, j \in 1 .. k : body[i].key /\ body[j].key => i = j} : k \in 1 .. n}
\* the CREATE TABLE statements of a caller, and the scripts made of them: one
\* statement, or a statement for t and one for u on separate lines
Statements(names, n) ==
    {[keywords |-> k, table_name |-> tn, body |-> b] :
        k \in {"CREATE TABLE", "create table if not exists"}, tn \in names, b \in StatementBodies(n)}
Scripts ==
    {<<>>} \cup {<<s>> : s \in Statements({"t"}, MaxMembers)}
    \cup {<<s, r>> : s \in Statements({"t"}, 1), r \in Statements({"u"}, 1)}
\* the text of a statement and of a script
StatementText(s) ==
    s.keywords \o " " \o s.table_name \o " ("
    \o join(", ", [i \in DOMAIN s.body |-> s.body[i].clause]) \o ");"
ScriptText(script) == join("\n", [i \in DOMAIN script |-> StatementText(script[i])])

\* the columns of its table that a constraint member refers to
constraint_columns(name) ==
    IF name = "PRIMARY KEY" THEN {"price", "rating"}
    ELSE IF name = "FOREIGN KEY(t_id)" THEN {"t_id"}
    ELSE IF name = "FOREIGN KEY(rating)" THEN {"rating"}
    ELSE {"price"}
\* the columns the engine makes for a table: a clause of the CREATE TABLE
\* statement defines a column unless it is a table constraint
engine_columns(columns) ==
    SelectSeq(keys(column_defs(columns) \o constraints(columns)),
              LAMBDA name : CharsOf(name) \subseteq WordChars /\ upper(name) \notin {"UNIQUE", "CHECK"})
\* conn.executescript(sql_schema) succeeds: every table has a column, and the
\* constraints refer to columns of their table
engine_accepts(schema) ==
    \A i \in DOMAIN schema :
        /\ engine_columns(schema[i][2]) # <<>>
        /\ \A j \in DOMAIN schema[i][2] :
               schema[i][2][j][1] \in Range(engine_columns(schema[i][2]))
               \/ constraint_columns(schema[i][2][j][1]) \subseteq Range(engine_columns(schema[i][2]))
\* the value stored in a column of the one row of each table
StoredValue(column) == "value of " \o column
\* zip(a, b)
zip(a, b) == [i \in 1 .. Min({Len(a), Len(b)}) |-> <<a[i], b[i]>>]
\* result_converter of the repository made from (schema_fields, dataclass):
\* self.RepoData(**dict(zip(schema_fields.keys(), result))), the record as the
\* items field -> value, or TypeError for a keyword that is not a field
result_converter_of(fields_of_schema, dataclass, result) ==
    LET kwargs == zip(keys(fields_of_schema), result)
    IN IF \E k \in DOMAIN kwargs : \A f \in DOMAIN dataclass : dataclass[f].name # kwargs[k][1]
       THEN [raised |-> "TypeError", record |-> <<>>]
       ELSE [raised |-> "",
             record |-> [f \in DOMAIN dataclass |->
                            <<dataclass[f].name,
                              IF \E k \in DOMAIN kwargs : kwargs[k][1] = dataclass[f].name
                              THEN kwargs[CHOOSE k \in DOMAIN kwargs : kwargs[k][1] = dataclass[f].name][2]
                              ELSE dataclass[f].default>>]]

NoParsed == [raised |-> "", tables |-> <<>>]
NoValidated == [returned |-> FALSE, raised |-> "", table |-> "", column |-> "", type |-> ""]
NoSchema ==
    [form |-> "none", script |-> <<>>, schema_str |-> "", idxs |-> {}, schema |-> <<>>,
     step |-> "none", parsed |-> NoParsed, validated |-> NoValidated, sql |-> "",
     dataclass_fields |-> <<>>, dataclasses |-> <<>>, reparsed |-> NoParsed, loaded |-> <<>>]
\* AioRepositor(schema, idxs=idxs): the schema is a mapping or DDL text
SchemaInputs ==
    {[NoSchema EXCEPT !.form = "dict", !.schema = schema, !.idxs = idxs, !.step = "checked"] :
        schema \in StructuredSchemas, idxs \in IndexHints}
    \cup {[NoSchema EXCEPT !.form = "str", !.script = script, !.schema_str = ScriptText(script),
                           !.step = "checked"] : script \in Scripts}

\* ------------------------------------------------------ concurrent callers
\* the tasks of the event loop that call a repository of table t
Tasks == 1 .. MaxTasks
\* the connections aiosqlite.connect can give: a task connects once at most
Connections == 1 .. MaxTasks
\* a task: the method it called, where it is in _execute (pc), the local
\* conn of _execute (0: none), the connection its __aexit__ is closing, the
\* cursor's outcome, the value returned, whether it issued a request on a
\* closed connection, whether an exception left _execute
NoTask == [op |-> "none", pc |-> "idle", conn |-> 0, closing |-> 0, ok |-> FALSE,
           rowcount |-> 0, rows |-> <<>>, ret |-> "pending", closed_use |-> FALSE,
           raised |-> FALSE]
\* a connection of the engine: unused, open or closed; whether a transaction
\* is open on it; the content of t it sees once it has written; the tasks
\* whose statements are in its open transaction
NoEngineConnection == [state |-> "unused", in_transaction |-> FALSE, t |-> {}, pending |-> {}]
\* conn is DatabaseConnection.conn (0: None), store the committed rows of t,
\* committed the tasks whose statement has been committed
NoConcurrency ==
    [task |-> [t \in Tasks |-> NoTask], conn |-> 0,
     connection |-> [k \in Connections |-> NoEngineConnection],
     store |-> {}, committed |-> {}]

Init ==
    /\ table = {}
    /\ child = {}
    /\ conn = "None"
    /\ dbc = NoConnection
    /\ last = NoCall
    /\ prev = NoCall
    /\ aio = NoInstance
    /\ instances = NoRepositories
    /\ res = NoResult
    /\ split = NoSplit
    /\ sch = NoSchema
    /\ co = NoConcurrency

save_single(table_name, data, F) ==
    LET query == dc_to_insertion_query(table_name, data)
        ex == _execute(db, conn, query, dc_dict(data), FALSE, TRUE, FALSE, FALSE, F, NoId)
    IN /\ Idle
       /\ table' = ex.db.t
       /\ child' = ex.db.u
       /\ conn' = ex.conn
       /\ UNCHANGED <<split, sch, co, dbc, prev, aio, instances, res>>
       /\ last' = Call("save_single", NoKwargs, <<data>>,
                       IF ex.raised THEN <<data>> ELSE <<id_check_data(ex, data)>>, 1,
                       IF ex.raised THEN "False" ELSE id_check(ex, data),
                       <<>>, ex.log, <<ex.ok>>, ex.opened, db[table_name], query)

save_many_guard_vacuous(data_list) == IF data_list = <<>> THEN "True" ELSE "pending"

\* what save_many returns before its loop: False for an empty list
save_many_guard(data_list) == IF data_list = <<>> THEN "False" ELSE "pending"

\* save_many up to the loop: the empty-list check
save_many(table_name, data_list) ==
    /\ Idle
    /\ UNCHANGED <<split, sch, co, table, child, conn, dbc, prev, aio, instances, res>>
    /\ last' = Call("save_many", NoKwargs, data_list, data_list, 0,
                    save_many_guard(data_list),
                    <<>>, <<>>, <<>>, FALSE, db[table_name],
                    [NoQuery EXCEPT !.table = table_name])

\* one iteration of the loop of save_many, and its return
save_many_loop(F) ==
    LET data == last.data[last.i + 1]
        query == dc_to_insertion_query(last.query.table, data)
        ex == _execute(db, conn, query, dc_dict(data), TRUE, TRUE, FALSE, FALSE, F, NoId)
    IN /\ last.op = "save_many"
       /\ last.ret = "pending"
       /\ table' = ex.db.t
       /\ child' = ex.db.u
       /\ conn' = ex.conn
       /\ UNCHANGED <<split, sch, co, dbc, prev, aio, instances, res>>
       /\ last' = [last EXCEPT
                     !.data = IF ex.raised THEN @ ELSE [@ EXCEPT ![last.i + 1] = id_check_data(ex, data)],
                     !.i = @ + 1,
                     !.ret = IF ex.raised THEN "False"
                             ELSE IF last.i + 1 = Len(last.data) THEN "True" ELSE "pending",
                     !.log = @ \o ex.log,
                     !.oks = Append(@, ex.ok),
                     !.opened = @ \/ ex.opened,
                     !.query = query]

load_single(table_name, kwargs, F, pick) ==
    LET query == query_conditions(table_name, TRUE, FALSE, FALSE, kwargs)
        ex == _execute(db, conn, query, kwargs, FALSE, FALSE, FALSE, TRUE, F, pick)
        found == ~ex.raised /\ ex.rows # <<>>
    IN /\ Idle
       /\ pick \in LimitChoices(db[table_name], query, kwargs)
       /\ table' = ex.db.t
       /\ child' = ex.db.u
       /\ conn' = ex.conn
       /\ UNCHANGED <<split, sch, co, dbc, prev, aio, instances, res>>
       /\ last' = Call("load_single", kwargs, <<>>, <<>>, 0,
                       IF found THEN "record" ELSE "None",
                       IF found THEN <<result_converter(table_name, ex.rows[1])>> ELSE <<>>,
                       ex.log, <<ex.ok>>, ex.opened, db[table_name], query)

load_many(table_name, kwargs, F) ==
    LET query == query_conditions(table_name, FALSE, TRUE, FALSE, kwargs)
        ex == _execute(db, conn, query, kwargs, FALSE, FALSE, TRUE, FALSE, F, NoId)
        found == ~ex.raised /\ ex.rows # <<>>
    IN /\ Idle
       /\ table' = ex.db.t
       /\ child' = ex.db.u
       /\ conn' = ex.conn
       /\ UNCHANGED <<split, sch, co, dbc, prev, aio, instances, res>>
       /\ last' = Call("load_many", kwargs, <<>>, <<>>, 0, "list",
                       IF found THEN [j \in 1 .. Len(ex.rows) |->
                                         result_converter(table_name, ex.rows[j])]
                       ELSE <<>>,
                       ex.log, <<ex.ok>>, ex.opened, db[table_name], query)

delete_result_any(ex) ==
    IF ~ex.raised /\ ex.ok /\ ex.rowcount >= 0 THEN "True" ELSE "False"

\* the value delete returns after _execute
delete_result(ex) ==
    IF ~ex.raised /\ ex.ok /\ ex.rowcount > 0 THEN "True" ELSE "False"

delete(table_name, kwargs, F) ==
    LET query == query_conditions(table_name, FALSE, FALSE, TRUE, kwargs)
        ex == _execute(db, conn, query, kwargs, TRUE, TRUE, FALSE, FALSE, F, NoId)
    IN /\ Idle
       /\ IF query.kind = "ValueError"
          THEN /\ UNCHANGED <<split, sch, co, table, child, conn, dbc, prev, aio, instances, res>>
               /\ last' = Call("delete", kwargs, <<>>, <<>>, 0, "ValueError",
                               <<>>, <<>>, <<>>, FALSE, db[table_name], query)
          ELSE /\ table' = ex.db.t
               /\ child' = ex.db.u
               /\ conn' = ex.conn
               /\ UNCHANGED <<split, sch, co, dbc, prev, aio, instances, res>>
               /\ last' = Call("delete", kwargs, <<>>, <<>>, 0,
                               delete_result(ex),
                               <<>>, ex.log, <<ex.ok>>, ex.opened, db[table_name], query)

custom_query(query, F) ==
    LET ex == _execute(db, conn, query, NoKwargs, FALSE, FALSE, TRUE, FALSE, F, NoId)
        column_names == description(query)
        found == ~ex.raised /\ ex.rows # <<>> /\ CustomDataClass(column_names) # "TypeError"
    IN /\ Idle
       /\ table' = ex.db.t
       /\ child' = ex.db.u
       /\ conn' = ex.conn
       /\ UNCHANGED <<split, sch, co, dbc, prev, aio, instances, res>>
       /\ last' = Call("custom_query", NoKwargs, <<query.kind>>, <<>>, 0, "list",
                       IF found THEN [j \in 1 .. Len(ex.rows) |-> CustomResult(column_names, ex.rows[j])]
                       ELSE <<>>,
                       ex.log, <<ex.ok>>, ex.opened, db[query.table], query)

\* the caller takes the returned value and goes on to its next call
\* (ops: the methods whose call, when it returned True, the model remembers
\*  in prev)
Return(ops) ==
    /\ last # NoCall
    /\ last.ret # "pending"
    /\ UNCHANGED <<split, sch, co, table, child, conn, dbc, aio, instances, res>>
    /\ prev' = IF last.op \in ops /\ last.ret = "True"
               THEN [last EXCEPT !.log = <<>>, !.oks = <<>>, !.opened = FALSE,
                                 !.query = [NoQuery EXCEPT !.table = last.query.table]]
               ELSE NoCall
    /\ last' = NoCall

\* the injected failures an iteration of save_many can meet: none once an
\* _execute call of the batch has failed
BatchFaults ==
    IF \A k \in 1 .. Len(last.oks) : last.oks[k] THEN FaultsOf(TRUE, TRUE, FALSE) ELSE {{}}

\* the operations of the repository of table t
Next ==
    \/ Idle /\ \E data \in RepoData("t"), F \in FaultsOf(FALSE, TRUE, FALSE) : save_single("t", data, F)
    \/ Idle /\ \E data_list \in DataLists : save_many("t", data_list)
    \/ \E F \in BatchFaults : save_many_loop(F)
    \/ Idle /\ \E kwargs \in Kwargs("t"), F \in FaultsOf(FALSE, FALSE, TRUE), pick \in Ids \cup {NoId} :
                  load_single("t", kwargs, F, pick)
    \/ Idle /\ \E kwargs \in KwargsAnyOrder("t"), F \in FaultsOf(FALSE, FALSE, TRUE) :
                  load_many("t", kwargs, F)
    \/ Idle /\ \E kwargs \in Kwargs("t"), F \in FaultsOf(TRUE, TRUE, FALSE) : delete("t", kwargs, F)
    \/ Idle /\ \E query \in CustomQueries, F \in FaultsOf(FALSE, FALSE, TRUE) : custom_query(query, F)
    \/ Return({"save_single"})

\* schema_type_check: True for text, False for a mapping, else TypeError
schema_type_check(self) ==
    IF self.form = "str" THEN "True" ELSE IF self.form = "dict" THEN "False" ELSE "TypeError"

\* the first table, in the order of the schema, whose definition has the defect
FirstWith(tables, defects) ==
    LET bad == SelectSeq(TableOrder, LAMBDA tn : tn \in DOMAIN tables /\ tables[tn] \in defects)
    IN IF bad = <<>> THEN "" ELSE tables[Head(bad)]

\* SqlStrToDict(text).parse(): the mapping of the tables of the text, or
\* ValueError for a column without a type
parse(tables) ==
    IF FirstWith(tables, {"no type"}) # "" THEN "ValueError" ELSE ""

\* SchemaValidator.validate(schema): the error it raises, "" for none: the
\* first column in error decides (an empty definition has no first word)
validate(tables) ==
    LET first == FirstWith(tables, Defects)
    IN IF first = "no type" THEN "IndexError"
       ELSE IF first = "bad type" THEN "ValueError" ELSE ""

\* DatabaseConnection._detect_foreign_keys(schema)
_detect_foreign_keys(tables) ==
    \E tn \in DOMAIN tables :
        \E i \in 1 .. Len(Members(tn, tables[tn])) : Keyword(Members(tn, tables[tn])[i]) = "FOREIGN KEY"

\* DatabaseConnection(db_path, schema): __new__ makes the singleton, and
\* computes its flag, only when there is none
DatabaseConnection_fresh(instance, db_path, tables) ==
    [exists |-> TRUE, db_path |-> db_path, has_foreign_keys |-> _detect_foreign_keys(tables)]

DatabaseConnection(instance, db_path, tables) ==
    IF instance.exists THEN instance
    ELSE [exists |-> TRUE, db_path |-> db_path, has_foreign_keys |-> _detect_foreign_keys(tables)]

\* entry_init: self.db_path = os.path.join(os.getcwd(), self.folder_name, self.db_name)
db_path_of(self) == self.folder_name \o "/" \o self.db_name

init_db_late_check(self, instance, c, init_ok) ==
    LET typed == schema_type_check(self)
        parsed == IF typed = "True" THEN parse(self.schema) ELSE ""
        form == IF typed = "True" /\ parsed = "" THEN "dict" ELSE self.form
        raised == IF typed = "TypeError" THEN "TypeError"
                  ELSE IF parsed # "" THEN parsed
                  ELSE validate(self.schema)
        connection_manager == DatabaseConnection(instance, db_path_of(self), self.schema)
        c1 == aenter(connection_manager, c)
    IN [raised |-> raised, form |-> form, status |-> raised = "" /\ init_ok,
        dbc |-> connection_manager, conn |-> aexit(c1),
        log |-> aenter_log(connection_manager, c) \o <<"executescript">>
                \o (IF init_ok THEN <<"commit">> ELSE <<>>)
                \o (IF aexit(c1) = "None" THEN <<"close">> ELSE <<>>)]

\* init_db: the error raised ("" for none), self.schema after it, the status
\* returned, the connection manager, its conn and the requests made to the
\* engine; init_ok is whether the engine accepted the table-creation script
init_db(self, instance, c, init_ok) ==
    LET typed == schema_type_check(self)
        parsed == IF typed = "True" THEN parse(self.schema) ELSE ""
        form == IF typed = "True" /\ parsed = "" THEN "dict" ELSE self.form
        raised == IF typed = "TypeError" THEN "TypeError"
                  ELSE IF parsed # "" THEN parsed
                  ELSE validate(self.schema)
        connection_manager == DatabaseConnection(instance, db_path_of(self), self.schema)
        c1 == aenter(connection_manager, c)
    IN IF raised # ""
       THEN [raised |-> raised, form |-> form, status |-> FALSE, dbc |-> instance,
             conn |-> c, log |-> <<>>]
       ELSE [raised |-> "", form |-> form, status |-> init_ok, dbc |-> connection_manager,
             conn |-> aexit(c1),
             log |-> aenter_log(connection_manager, c) \o <<"executescript">>
                     \o (IF init_ok THEN <<"commit">> ELSE <<>>)
                     \o (IF aexit(c1) = "None" THEN <<"close">> ELSE <<>>)]

AioRepositor_new_always(instance, schema, place) ==
    [exists |-> TRUE, initialized |-> FALSE, schema |-> schema.tables,
     form |-> schema.form, arg |-> schema,
     folder_name |-> place.folder_name, db_name |-> place.db_name, indexes |-> place.indexes,
     repositories |-> <<>>, has_repositories |-> FALSE]

\* AioRepositor.__new__(cls, schema, folder_name, db_name, indexes): the
\* instance returned, which is cls._instance after the call
AioRepositor_new(instance, schema, place) ==
    IF instance.exists THEN instance
    ELSE [exists |-> TRUE, initialized |-> FALSE, schema |-> schema.tables,
          form |-> schema.form, arg |-> schema,
          folder_name |-> place.folder_name, db_name |-> place.db_name, indexes |-> place.indexes,
          repositories |-> <<>>, has_repositories |-> FALSE]

\* AioRepositor(schema, folder_name, db_name, indexes): __new__ creates the
\* singleton unless there is one
AioRepositor(schema, place) ==
    /\ Idle
    /\ aio' = AioRepositor_new(aio, schema, place)
    /\ res' = [NoResult EXCEPT !.op = "AioRepositor", !.before = instances]
    /\ prev' = NoCall
    /\ UNCHANGED <<split, sch, co, table, child, conn, dbc, last, instances>>

\* await AioRepositor(...): entry_init
entry_init(init_ok) ==
    LET init == init_db(aio, dbc, conn, init_ok)
        made == create_repositories(instances, aio.schema)
        result == [NoResult EXCEPT !.op = "entry_init", !.before = instances,
                                   !.raised = init.raised, !.log = init.log]
    IN /\ Idle
       /\ aio.exists
       /\ IF aio.initialized
          THEN /\ UNCHANGED <<split, sch, co, aio, instances, conn, dbc>>
               /\ res' = [NoResult EXCEPT !.op = "entry_init", !.before = instances,
                                          !.repositories = aio.repositories,
                                          !.is_none = ~aio.has_repositories]
          ELSE /\ conn' = init.conn
               /\ dbc' = init.dbc
               /\ IF init.raised # ""
                  THEN /\ aio' = [aio EXCEPT !.form = init.form]
                       /\ res' = result
                       /\ UNCHANGED instances
                  ELSE IF init.status
                  THEN /\ instances' = made.cache
                       /\ aio' = [aio EXCEPT !.form = init.form, !.initialized = TRUE,
                                             !.repositories = made.repositories,
                                             !.has_repositories = TRUE]
                       /\ res' = [result EXCEPT !.repositories = made.repositories,
                                                !.is_none = FALSE]
                  ELSE /\ aio' = [aio EXCEPT !.form = init.form, !.repositories = <<>>,
                                             !.has_repositories = FALSE]
                       /\ res' = result
                       /\ UNCHANGED instances
       /\ prev' = NoCall
       /\ UNCHANGED <<split, sch, co, table, child, last>>

\* clean_up(full) removes the file self.db_path and the folder
\* self.folder_name: the database the connection manager opens is gone when
\* it is that file or lies in that folder
RemovesDatabase(self, connection_manager) ==
    \/ connection_manager.db_path = db_path_of(self)
    \/ startswith(connection_manager.db_path, self.folder_name \o "/")

\* AioRepositor._instance.clean_up(full)
clean_up(full) ==
    /\ Idle
    /\ aio.exists
    /\ table' = IF aio.initialized /\ full /\ RemovesDatabase(aio, dbc) THEN {} ELSE table
    /\ child' = IF aio.initialized /\ full /\ RemovesDatabase(aio, dbc) THEN {} ELSE child
    /\ aio' = NoInstance
    /\ res' = [NoResult EXCEPT !.op = "clean_up", !.before = instances]
    /\ prev' = NoCall
    /\ UNCHANGED <<split, sch, co, conn, dbc, last, instances>>

\* RepositoryFactory.create_repository(table_name, schema_fields, _fields)
request_repository(table_name, fields) ==
    LET made == create_repository(instances, table_name, fields)
    IN /\ Idle
       /\ instances' = made.cache
       /\ res' = [NoResult EXCEPT !.op = "create_repository", !.table_name = table_name,
                                  !.repo = made.repo, !.is_none = FALSE,
                                  !.before = instances]
       /\ prev' = NoCall
       /\ UNCHANGED <<split, sch, co, table, child, conn, dbc, last, aio>>

NextSetup ==
    \/ \E schema \in SchemaArgs, place \in Places : AioRepositor(schema, place)
    \/ \E init_ok \in BOOLEAN : entry_init(init_ok)
    \/ \E full \in BOOLEAN : clean_up(full)
    \/ \E table_name \in TableNames, fields \in Variants : request_repository(table_name, fields)

Spec == Init /\ [][Next]_vars

\* set-up, clean-up and repository requests
SpecSetup == Init /\ [][NextSetup]_vars

\* the parser is about to split a table body
InitSplit ==
    /\ table = {}
    /\ child = {}
    /\ conn = "None"
    /\ dbc = NoConnection
    /\ last = NoCall
    /\ prev = NoCall
    /\ aio = NoInstance
    /\ instances = NoRepositories
    /\ res = NoResult
    /\ split \in {[NoSplit EXCEPT !.columns_str = body] : body \in Bodies}
    /\ sch = NoSchema
    /\ co = NoConcurrency

\* columns_list = self._split_columns(columns_str)
split_columns ==
    /\ ~split.returned
    /\ split' = [split EXCEPT !.columns = _split_columns(split.columns_str), !.returned = TRUE]
    /\ UNCHANGED <<table, child, conn, dbc, last, prev, aio, instances, res, sch, co>>

NextSplit == split_columns

SpecSplit == InitSplit /\ [][NextSplit]_vars

\* init_db is about to work on the schema (schema_type_check has passed)
InitSchema ==
    /\ table = {}
    /\ child = {}
    /\ conn = "None"
    /\ dbc = NoConnection
    /\ last = NoCall
    /\ prev = NoCall
    /\ aio = NoInstance
    /\ instances = NoRepositories
    /\ res = NoResult
    /\ split = NoSplit
    /\ sch \in SchemaInputs
    /\ co = NoConcurrency

schemaFrame == <<table, child, conn, dbc, last, prev, aio, instances, res, split, co>>

\* init_db: parser = SqlStrToDict(self.schema); self.schema = parser.parse()
parse_schema ==
    /\ sch.form = "str" /\ sch.step = "checked"
    /\ LET parsed == SqlStrToDict_parse(sch.schema_str)
       IN sch' = [sch EXCEPT !.parsed = parsed, !.schema = parsed.tables,
                             !.step = IF parsed.raised # "" THEN "raised" ELSE "parsed"]
    /\ UNCHANGED schemaFrame

\* init_db: SchemaValidator.validate(self.schema)
validate_schema ==
    /\ \/ sch.form = "dict" /\ sch.step = "checked"
       \/ sch.step = "parsed"
    /\ LET validated == SchemaValidator_validate(sch.schema)
       IN sch' = [sch EXCEPT !.validated = validated,
                             !.step = IF validated.raised # "" THEN "raised" ELSE "validated"]
    /\ UNCHANGED schemaFrame

\* init_db: sql_script, repo_fields = SchemaParser.generate_sql(self.schema, idxs)
generate_sql_script ==
    /\ sch.step = "validated"
    /\ LET generated == generate_sql(sch.schema, sch.idxs)
       IN sch' = [sch EXCEPT !.sql = generated.sql, !.dataclass_fields = generated.dataclass_fields,
                             !.step = "generated"]
    /\ UNCHANGED schemaFrame

\* init_db: await conn.executescript(sql_schema); a script the engine rejects
\* makes init_db return (False, {}), and no repository is made
executescript ==
    /\ sch.step = "generated"
    /\ sch' = [sch EXCEPT !.step = IF engine_accepts(sch.schema) THEN "created" ELSE "rejected"]
    /\ UNCHANGED schemaFrame

\* create_repository: dataclass = RepoDataClass()(table_name, fields) for the
\* tables of the schema
make_dataclasses ==
    /\ sch.step = "created"
    /\ sch' = [sch EXCEPT !.dataclasses =
                              [i \in DOMAIN sch.dataclass_fields |->
                                  <<sch.dataclass_fields[i][1], RepoDataClass(sch.dataclass_fields[i][2])>>],
                          !.step = "built"]
    /\ UNCHANGED schemaFrame

\* the script generated is given to the parser: SqlStrToDict(sql_script).parse()
parse_generated ==
    /\ sch.step = "built"
    /\ sch' = [sch EXCEPT !.reparsed = SqlStrToDict_parse(sch.sql), !.step = "reparsed"]
    /\ UNCHANGED schemaFrame

\* every table holds one row, and its repository is asked for it by
\* load_single(id=...): the engine returns the row, the values of the columns
\* in the order of the table, and result_converter makes the record; an
\* exception it raises is caught and None is returned
load_rows ==
    /\ sch.step = "reparsed"
    /\ sch' = [sch EXCEPT
                  !.loaded = [i \in DOMAIN sch.schema |->
                      LET result == [k \in DOMAIN engine_columns(sch.schema[i][2]) |->
                                        StoredValue(engine_columns(sch.schema[i][2])[k])]
                          converted == result_converter_of(sch.schema[i][2], sch.dataclasses[i][2], result)
                      IN [table_name |-> sch.schema[i][1], result |-> result,
                          returned |-> IF converted.raised # "" THEN "None" ELSE "record",
                          record |-> converted.record]],
                  !.step = "loaded"]
    /\ UNCHANGED schemaFrame

NextSchema ==
    \/ parse_schema
    \/ validate_schema
    \/ generate_sql_script
    \/ executescript
    \/ make_dataclasses
    \/ parse_generated
    \/ load_rows

\* the way of a schema through the parser, the validator, the SQL generator
\* and the record type factory
SpecSchema == InitSchema /\ [][NextSchema]_vars

\* the schemas of a process that works on related tables: t alone, and t
\* with u, whose rows reference t
RelSchemas ==
    {[form |-> "dict", tables |-> [t |-> "v1"]],
     [form |-> "dict", tables |-> [t |-> "v1", u |-> "v1"]]}
\* the new records it saves
RelData(table_name) ==
    IF table_name = "t" THEN {[id |-> NoId, name |-> "Alice", note |-> None]}
    ELSE [id : {NoId}, t_id : Ids, tag : Tags \cup {None}]
\* its filters: one row of t by id, the rows of u by the row of t they reference
RelKwargs(table_name) ==
    {kwargs \in Kwargs(table_name) : Keys(kwargs) = (IF table_name = "t" THEN {"id"} ELSE {"t_id"})}
\* the engine failures it meets
RelFaults == {{}, {"commit"}}
\* the repositories the awaited instance returned
Repositories == IF aio.initialized THEN DOMAIN aio.repositories ELSE {}

\* a process that initializes, works on the repositories it got, cleans up
\* and initializes again
NextRel ==
    \/ \E schema \in RelSchemas : AioRepositor(schema, DefaultPlace)
    \/ \E init_ok \in BOOLEAN : entry_init(init_ok)
    \/ \E full \in BOOLEAN : clean_up(full)
    \/ Idle /\ \E table_name \in Repositories, F \in RelFaults :
                  \E data \in RelData(table_name) : save_single(table_name, data, F)
    \/ Idle /\ "t" \in Repositories /\ \E kwargs \in RelKwargs("t"), F \in RelFaults :
                  delete("t", kwargs, F)
    \/ Idle /\ "u" \in Repositories /\ \E kwargs \in RelKwargs("u"), pick \in Ids \cup {NoId} :
                  load_single("u", kwargs, {}, pick)
    \/ Idle /\ "u" \in Repositories /\ \E kwargs \in RelKwargs("u") : load_many("u", kwargs, {})
    \/ Return({"delete"})

SpecRel == Init /\ [][NextRel]_vars

\* the methods the tasks call: delete(id=1), save_single(RepoData(id=1,
\* name='Alice', note='x')) and load_many()
ConcurrentOps == {"delete", "save_single", "load_many"}
ConcurrentKwargs == [NoKwargs EXCEPT !.id = 1, !.order = <<"id">>]
ConcurrentData == [id |-> 1, name |-> "Alice", note |-> "x"]
\* the arguments with which a method calls _execute
execute_call(op) ==
    IF op = "delete"
    THEN [query |-> query_conditions("t", FALSE, FALSE, TRUE, ConcurrentKwargs),
          params |-> ConcurrentKwargs, transaction |-> TRUE, commit |-> TRUE, fetch_all |-> FALSE]
    ELSE IF op = "save_single"
    THEN [query |-> dc_to_insertion_query("t", ConcurrentData),
          params |-> dc_dict(ConcurrentData), transaction |-> FALSE, commit |-> TRUE,
          fetch_all |-> FALSE]
    ELSE [query |-> query_conditions("t", FALSE, TRUE, FALSE, NoKwargs),
          params |-> NoKwargs, transaction |-> FALSE, commit |-> FALSE, fetch_all |-> TRUE]

\* the callers have initialized and the manager exists; t holds one row
InitConcurrent ==
    /\ table = {}
    /\ child = {}
    /\ conn = "None"
    /\ dbc = NoConnection
    /\ last = NoCall
    /\ prev = NoCall
    /\ aio = NoInstance
    /\ instances = NoRepositories
    /\ res = NoResult
    /\ split = NoSplit
    /\ sch = NoSchema
    /\ co = [NoConcurrency EXCEPT !.store = {<<1, "Alice", None>>}]

concurrentFrame == <<table, child, conn, dbc, last, prev, aio, instances, res, split, sch>>

\* the content of t a connection reads: its own once it has written in its
\* open transaction, else what is committed
view(k) == IF co.connection[k].pending # {} THEN co.connection[k].t ELSE co.store
\* another connection has written and not committed: it holds the write lock
locked(k) ==
    \E j \in Connections \ {k} :
        co.connection[j].state = "open" /\ co.connection[j].pending # {}
\* the first statement of _execute after __aenter__ has returned
after_aenter(call) == IF call.transaction THEN "begin" ELSE "execute"
\* the except clause of _execute: with transaction it awaits conn.rollback(),
\* else it returns (None, None) and the scope is left
excepted(task, call, on_closed) ==
    IF call.transaction
    THEN [task EXCEPT !.pc = "rollback", !.ok = FALSE, !.closed_use = @ \/ on_closed]
    ELSE [task EXCEPT !.pc = "aexit", !.ok = FALSE, !.closed_use = @ \/ on_closed]

\* a task calls a method: _execute enters the scope of the manager, and
\* __aenter__ runs up to its first await: with self.conn None it awaits
\* aiosqlite.connect, else it returns self.conn
call_method(t, op) ==
    /\ co.task[t].pc = "idle"
    /\ co' = [co EXCEPT !.task[t] =
                  IF co.conn = 0
                  THEN [NoTask EXCEPT !.op = op, !.pc = "connect"]
                  ELSE [NoTask EXCEPT !.op = op, !.conn = co.conn,
                                      !.pc = after_aenter(execute_call(op))]]
    /\ UNCHANGED concurrentFrame

\* aiosqlite.connect returns: self.conn = <the new connection>, and
\* __aenter__ returns self.conn (the manager of table t has no foreign keys)
aenter_connected(t) ==
    /\ co.task[t].pc = "connect"
    /\ LET k == CHOOSE k \in Connections :
                    /\ co.connection[k].state = "unused"
                    /\ \A j \in Connections : co.connection[j].state = "unused" => k <= j
       IN co' = [co EXCEPT !.conn = k,
                           !.connection[k] = [NoEngineConnection EXCEPT !.state = "open"],
                           !.task[t] = [@ EXCEPT !.conn = k,
                                                 !.pc = after_aenter(execute_call(co.task[t].op))]]
    /\ UNCHANGED concurrentFrame

\* await conn.execute("BEGIN TRANSACTION;"): fails on a closed connection and
\* within a transaction
begin_transaction(t) ==
    LET task == co.task[t]
        call == execute_call(task.op)
        c == co.connection[task.conn]
    IN /\ task.pc = "begin"
       /\ co' = IF c.state = "closed"
                THEN [co EXCEPT !.task[t] = excepted(task, call, TRUE)]
                ELSE IF c.in_transaction
                THEN [co EXCEPT !.task[t] = excepted(task, call, FALSE)]
                ELSE [co EXCEPT !.connection[task.conn].in_transaction = TRUE,
                                !.task[t].pc = "execute"]
       /\ UNCHANGED concurrentFrame

\* cursor = await conn.execute(query, params): fails on a closed connection,
\* and a write fails when another connection holds the write lock (database
\* is locked); a write opens a transaction when none is open
execute_query(t) ==
    LET task == co.task[t]
        call == execute_call(task.op)
        c == co.connection[task.conn]
        ex == EngineExecute([t |-> view(task.conn), u |-> {}], call.query, call.params, NoId, FALSE)
        writes == call.query.kind # "SELECT"
    IN /\ task.pc = "execute"
       /\ co' = IF c.state = "closed"
                THEN [co EXCEPT !.task[t] = excepted(task, call, TRUE)]
                ELSE IF ~ex.ok \/ (writes /\ locked(task.conn))
                THEN [co EXCEPT !.task[t] = excepted(task, call, FALSE)]
                ELSE [co EXCEPT
                        !.connection[task.conn] =
                            IF writes
                            THEN [@ EXCEPT !.in_transaction = TRUE, !.t = ex.db.t,
                                           !.pending = @ \cup {t}]
                            ELSE @,
                        !.task[t] = [@ EXCEPT !.ok = TRUE, !.rowcount = ex.rowcount,
                                              !.rows = ex.rows,
                                              !.pc = IF call.fetch_all THEN "fetchall"
                                                     ELSE IF call.commit THEN "commit"
                                                     ELSE "aexit"]]
       /\ UNCHANGED concurrentFrame

\* result = await cursor.fetchall(); return result, cursor
fetchall(t) ==
    LET task == co.task[t]
        call == execute_call(task.op)
    IN /\ task.pc = "fetchall"
       /\ co' = IF co.connection[task.conn].state = "closed"
                THEN [co EXCEPT !.task[t] = [excepted(task, call, TRUE) EXCEPT !.rows = <<>>]]
                ELSE [co EXCEPT !.task[t].pc = "aexit"]
       /\ UNCHANGED concurrentFrame

\* await conn.commit(); return cursor, None: what the connection has written
\* becomes the content of the store
commit(t) ==
    LET task == co.task[t]
        call == execute_call(task.op)
        c == co.connection[task.conn]
    IN /\ task.pc = "commit"
       /\ co' = IF c.state = "closed"
                THEN [co EXCEPT !.task[t] = excepted(task, call, TRUE)]
                ELSE [co EXCEPT !.store = view(task.conn),
                                !.committed = @ \cup c.pending,
                                !.connection[task.conn] =
                                    [@ EXCEPT !.in_transaction = FALSE, !.pending = {}],
                                !.task[t].pc = "aexit"]
       /\ UNCHANGED concurrentFrame

\* the except clause with transaction: await conn.rollback() drops what the
\* connection has written and not committed; on a closed connection it
\* raises, and the exception leaves _execute
rollback(t) ==
    LET task == co.task[t]
    IN /\ task.pc = "rollback"
       /\ co' = IF co.connection[task.conn].state = "closed"
                THEN [co EXCEPT !.task[t] = [@ EXCEPT !.pc = "aexit", !.raised = TRUE,
                                                      !.closed_use = TRUE]]
                ELSE [co EXCEPT !.connection[task.conn] =
                                    [@ EXCEPT !.in_transaction = FALSE, !.pending = {}],
                                !.task[t].pc = "aexit"]
       /\ UNCHANGED concurrentFrame

\* __aexit__ up to its await: with self.conn set it awaits self.conn.close()
aexit_begin(t) ==
    /\ co.task[t].pc = "aexit"
    /\ co' = IF co.conn = 0
             THEN [co EXCEPT !.task[t].pc = "return"]
             ELSE [co EXCEPT !.task[t] = [@ EXCEPT !.pc = "close", !.closing = co.conn]]
    /\ UNCHANGED concurrentFrame

\* the engine closes the connection: its open transaction is dropped
aexit_close(t) ==
    /\ co.task[t].pc = "close"
    /\ co' = [co EXCEPT !.connection[co.task[t].closing] =
                            [@ EXCEPT !.state = "closed", !.in_transaction = FALSE,
                                      !.pending = {}],
                        !.task[t].pc = "closed"]
    /\ UNCHANGED concurrentFrame

\* await self.conn.close() returns to __aexit__: self.conn = None
aexit_end(t) ==
    /\ co.task[t].pc = "closed"
    /\ co' = [co EXCEPT !.conn = 0, !.task[t].pc = "return"]
    /\ UNCHANGED concurrentFrame

\* the method returns: delete and save_single from the cursor of _execute,
\* load_many the list of the fetched rows
method_returns(t) ==
    LET task == co.task[t]
        ex == [raised |-> task.raised, ok |-> task.ok, rowcount |-> task.rowcount]
    IN /\ task.pc = "return"
       /\ co' = [co EXCEPT !.task[t] =
                     [@ EXCEPT !.pc = "done",
                               !.ret = IF task.op = "delete" THEN delete_result(ex)
                                       ELSE IF task.op = "save_single"
                                       THEN (IF task.raised THEN "False"
                                             ELSE id_check(ex, ConcurrentData))
                                       ELSE "list"]]
       /\ UNCHANGED concurrentFrame

NextConcurrent ==
    \/ \E t \in Tasks, op \in ConcurrentOps : call_method(t, op)
    \/ \E t \in Tasks : aenter_connected(t)
    \/ \E t \in Tasks : begin_transaction(t)
    \/ \E t \in Tasks : execute_query(t)
    \/ \E t \in Tasks : fetchall(t)
    \/ \E t \in Tasks : commit(t)
    \/ \E t \in Tasks : rollback(t)
    \/ \E t \in Tasks : aexit_begin(t)
    \/ \E t \in Tasks : aexit_close(t)
    \/ \E t \in Tasks : aexit_end(t)
    \/ \E t \in Tasks : method_returns(t)

\* tasks that call repository methods at the same time
SpecConcurrent == InitConcurrent /\ [][NextConcurrent]_vars

TypeOK ==
    /\ conn \in {"None", "open", "open, foreign_keys = ON"}
    /\ \A r \in table : r[1] \in Ids /\ r[2] \in Names /\ r[3] \in Notes \cup {None}
    /\ \A r, q \in table : r[1] = q[1] => r = q

\* ------------------------------------------------------------------ claims
\* the call recorded in `last` has returned to its caller
Returned == last.op # "none" /\ last.ret # "pending"

\* row satisfies every condition "key = :key" of the filters (an SQL comparison
\* with a NULL parameter is never true)
RowMatches(row, kwargs) ==
    \A k \in Keys(kwargs) : kwargs[k] # NoneOf(k) /\ row[ColIdx(k)] = kwargs[k]

\* row differs from the filters in some field it names
RowDiffers(row, kwargs) ==
    \E k \in Keys(kwargs) : row[ColIdx(k)] # kwargs[k]

\* the row the engine holds for a record
RowOf(data) == [i \in 1 .. Cardinality(DOMAIN data) |-> data[CHOOSE k \in DOMAIN data : ColIdx(k) = i]]

\* C1: delete() without keyword filters raises a ValueError before anything is
\* sent to the store: no request reaches the engine and the table is unchanged.
C1_DeleteWithoutFiltersRaises ==
    (last.op = "delete" /\ Keys(last.kwargs) = {})
        => (last.ret = "ValueError" /\ last.log = <<>> /\ table = last.pre)

\* C5: load_single returns None when no row matches the filters; load_many
\* returns a list, which is empty when no row matches or the statement failed;
\* load_single returns at most one record, and that record is a matching row.
C5_LoadNoMatch ==
    /\ (last.op = "load_single" /\ \A r \in last.pre : RowDiffers(r, last.kwargs))
           => (last.ret = "None" /\ last.out = <<>>)
    /\ last.op = "load_many" => last.ret = "list"
    /\ (last.op = "load_many"
            /\ ((\A r \in last.pre : RowDiffers(r, last.kwargs)) \/ last.oks = <<FALSE>>))
           => last.out = <<>>
    /\ last.op = "load_single"
           => /\ Len(last.out) <= 1
              /\ last.ret = (IF last.out = <<>> THEN "None" ELSE "record")
              /\ \A j \in 1 .. Len(last.out) :
                    RowOf(last.out[j]) \in last.pre /\ RowMatches(RowOf(last.out[j]), last.kwargs)

\* a load_single that found nothing although the table has rows, and a
\* load_many whose statement failed although rows match
C5_Witness ==
    \/ /\ last.op = "load_single" /\ last.ret = "None" /\ last.oks = <<TRUE>>
       /\ last.pre # {} /\ Keys(last.kwargs) # {}
    \/ /\ last.op = "load_many" /\ last.oks = <<FALSE>> /\ last.out = <<>>
       /\ \E r \in last.pre : RowMatches(r, last.kwargs)

\* C7: delete with at least one filter returns True exactly when at least one
\* row matched all the filters and the matching rows were removed; after True
\* no matching row remains and no other row is touched, after False the table
\* is unchanged.
C7_DeleteResult ==
    (last.op = "delete" /\ Keys(last.kwargs) # {})
        => LET matched == {r \in last.pre : RowMatches(r, last.kwargs)}
           IN /\ last.ret \in {"True", "False"}
              /\ last.ret = "True" <=> (matched # {} /\ table = last.pre \ matched)
              /\ last.ret = "True" => \A r \in table : ~RowMatches(r, last.kwargs)
              /\ last.ret = "False" => table = last.pre

\* a delete that removed one of two rows
C7_Witness ==
    /\ last.op = "delete" /\ last.ret = "True"
    /\ Cardinality(last.pre) = 2 /\ Cardinality(table) = 1

\* C10: save_many([]) returns False without acquiring a connection or sending
\* anything to the engine.
C10_SaveManyEmpty ==
    (last.op = "save_many" /\ last.arg = <<>>)
        => /\ last.ret = "False"
           /\ last.log = <<>>
           /\ ~last.opened
           /\ table = last.pre

C10_Witness ==
    last.op = "save_many" /\ last.arg = <<>> /\ last.ret = "False" /\ table # {}

\* C2: save_many of a non-empty list is all-or-nothing: it returns True only
\* when every record was stored; when the insertion of a record fails no later
\* record is attempted, the table is as it was before the call and the call
\* returns False.
C2_SaveManyAllOrNothing ==
    (last.op = "save_many" /\ last.arg # <<>> /\ Returned)
        => IF \E j \in 1 .. Len(last.oks) : ~last.oks[j]
           THEN /\ last.ret = "False"
                /\ table = last.pre
                /\ \A j \in 1 .. Len(last.oks) - 1 : last.oks[j]
           ELSE /\ last.ret = "True"
                /\ Len(last.oks) = Len(last.arg)

\* C3: save_single of a record with id None either stores one new row and
\* back-fills the record's id with its positive row id, or reports failure and
\* changes neither the table nor the record; save_single called again on the
\* record just saved leaves the number of rows unchanged.
C3_SaveSingleInsertThenReplace ==
    /\ (last.op = "save_single" /\ last.arg[1].id = NoId)
           => IF last.ret = "True"
              THEN /\ last.data[1].id > 0
                   /\ last.data[1].id \notin RowIds(last.pre)
                   /\ last.data[1] = [last.arg[1] EXCEPT !.id = last.data[1].id]
                   /\ table = last.pre \cup {RowOf(last.data[1])}
                   /\ Cardinality(table) = Cardinality(last.pre) + 1
              ELSE /\ table = last.pre
                   /\ last.data = last.arg
    /\ (last.op = "save_single" /\ prev.op = "save_single" /\ prev.arg[1].id = NoId
            /\ last.arg = prev.data)
           => /\ Cardinality(table) = Cardinality(last.pre)
              /\ table = last.pre
              /\ last.data = last.arg

\* a record saved with id None and saved again with success
C3_Witness ==
    /\ last.op = "save_single" /\ prev.op = "save_single" /\ prev.arg[1].id = NoId
    /\ last.arg = prev.data /\ last.ret = "True"
    /\ Cardinality(table) = 2

\* the filters name only values of the record
FiltersOn(kwargs, data) ==
    /\ Keys(kwargs) # {}
    /\ \A k \in Keys(kwargs) : kwargs[k] = data[k]

\* C4 as stated: after a successful save_single of a record r with id None, from
\* a state where no row matched, a load_single filtered on field values of r
\* returns the record with r's fields and the back-filled id.
C4_RoundTripAnyFields ==
    (last.op = "load_single" /\ last.oks = <<TRUE>>
        /\ prev.op = "save_single" /\ prev.arg[1].id = NoId
        /\ FiltersOn(last.kwargs, prev.data[1])
        /\ \A r \in prev.pre : RowDiffers(r, last.kwargs))
        => (last.ret = "record" /\ last.out = <<prev.data[1]>> /\ last.out[1].id > 0)

\* C4 (amended): the same, for filters on the fields of r that are not None.
C4_RoundTrip ==
    /\ (last.op = "load_single" /\ last.oks = <<TRUE>>
           /\ prev.op = "save_single" /\ prev.arg[1].id = NoId
           /\ FiltersOn(last.kwargs, prev.data[1])
           /\ (\A k \in Keys(last.kwargs) : last.kwargs[k] # NoneOf(k))
           /\ \A r \in prev.pre : RowDiffers(r, last.kwargs))
           => (last.ret = "record" /\ last.out = <<prev.data[1]>> /\ last.out[1].id > 0)
    /\ (last.op = "load_single" /\ \A r \in last.pre : RowDiffers(r, last.kwargs))
           => last.ret = "None"

\* the record saved into a table that holds another row, and loaded by name
C4_Witness ==
    /\ last.op = "load_single" /\ last.ret = "record"
    /\ prev.op = "save_single" /\ prev.arg[1].id = NoId
    /\ last.out = <<prev.data[1]>>
    /\ prev.pre # {}
    /\ last.kwargs.name = prev.data[1].name /\ last.kwargs.id = AbsentId

\* C6: no repository operation raises on an engine failure; the operation
\* returns a negative result: falsy for the saves and delete, None for
\* load_single, an empty list for load_many and custom_query.
EngineFailed == \E j \in 1 .. Len(last.oks) : ~last.oks[j]

C6_FailureIsNegativeResult ==
    (Returned /\ EngineFailed)
        => /\ last.op \in {"save_single", "save_many", "delete"} => last.ret \in {"False", "None"}
           /\ last.op = "load_single" => last.ret = "None"
           /\ last.op \in {"load_many", "custom_query"} => (last.ret = "list" /\ last.out = <<>>)

Count(s) == Cardinality({j \in 1 .. Len(last.log) : last.log[j] = s})

C8_CacheOnlyGrows ==
    /\ [](/\ \A k \in DOMAIN instances : instances[k].table_name = k
          /\ \A k1, k2 \in DOMAIN instances : instances[k1].id = instances[k2].id => k1 = k2
          /\ (res.op = "create_repository" /\ res.table_name \in DOMAIN res.before)
                => (res.repo = res.before[res.table_name] /\ instances = res.before)
          /\ res.op = "create_repository" => res.repo = instances[res.table_name]
          /\ res.op = "entry_init"
                => \A k \in DOMAIN res.repositories :
                      /\ res.repositories[k] = instances[k]
                      /\ k \in DOMAIN res.before => res.repositories[k] = res.before[k])
    /\ [][\A k \in DOMAIN instances : k \in DOMAIN instances' /\ instances'[k] = instances[k]]_vars

\* an initialization that returned, for a table of its schema, the repository
\* made earlier for another definition of that table
C8_Witness ==
    /\ res.op = "entry_init" /\ aio.initialized
    /\ \E k \in DOMAIN res.repositories :
          /\ k \in DOMAIN res.before
          /\ res.repositories[k].schema_fields # aio.schema[k]

\* C11 as stated: load_many with zero filters returns one record for every row
\* of the table (the condition is 1=1); with filters it returns exactly the
\* rows for which every filter equals the supplied value; the conditions of
\* the statement are the filters in filter-argument order, joined with AND.
C11_LoadManyEqual ==
    (last.op = "load_many" /\ last.oks = <<TRUE>>)
        => LET equal == {r \in last.pre : ~RowDiffers(r, last.kwargs)}
           IN /\ Len(last.out) = Cardinality(equal)
              /\ {RowOf(last.out[j]) : j \in 1 .. Len(last.out)} = equal
              /\ last.kwargs.order = <<>> => (last.query.where.all /\ equal = last.pre)
              /\ last.query.where.conds = last.kwargs.order

\* C11 (amended): the same, the rows returned being those for which every
\* filter is the SQL condition key = :key with the supplied value: a filter
\* whose value is None matches no row, also where the column is NULL.
C11_LoadManyMatching ==
    (last.op = "load_many" /\ last.oks = <<TRUE>>)
        => LET matched == {r \in last.pre : RowMatches(r, last.kwargs)}
           IN /\ Len(last.out) = Cardinality(matched)
              /\ {RowOf(last.out[j]) : j \in 1 .. Len(last.out)} = matched
              /\ last.kwargs.order = <<>> => (last.query.where.all /\ matched = last.pre)
              /\ last.kwargs.order # <<>> => ~last.query.where.all
              /\ last.query.where.conds = last.kwargs.order
              /\ ~last.query.limit
              /\ (\A k \in Keys(last.kwargs) : last.kwargs[k] # NoneOf(k))
                    => matched = {r \in last.pre : ~RowDiffers(r, last.kwargs)}

\* a load_many with two filters, written in the reverse of the declaration
\* order, that returned one of two rows
C11_Witness ==
    /\ last.op = "load_many" /\ last.oks = <<TRUE>>
    /\ last.kwargs.order = <<"note", "name">>
    /\ Cardinality(last.pre) = 2 /\ Len(last.out) = 1

\* the schema the instance was constructed with is not valid: it is neither
\* text nor a mapping, or one of its definitions has a column without a type
\* or of a type that is not an SQL type
InvalidSchema(schema) ==
    schema.form = "other" \/ \E tn \in DOMAIN schema.tables : schema.tables[tn] \in Defects
\* the engine rejected the table-creation script of the initialization
Rejected(log) == "executescript" \in Range(log) /\ "commit" \notin Range(log)

C17_InitFailure ==
    res.op = "entry_init"
        => /\ InvalidSchema(aio.arg)
                => /\ res.raised \in {"TypeError", "ValueError", "IndexError"}
                   /\ aio.arg.form = "other" <=> res.raised = "TypeError"
                   /\ res.log = <<>> /\ conn = "None"
                   /\ instances = res.before /\ res.repositories = <<>>
                   /\ ~aio.initialized /\ ~aio.has_repositories
           /\ Rejected(res.log)
                => /\ res.raised = "" /\ res.is_none
                   /\ instances = res.before /\ res.repositories = <<>>
                   /\ ~aio.initialized /\ ~aio.has_repositories

\* DDL text that parses and then fails type validation, awaited in a process
\* whose cache holds a repository
C17_Witness ==
    /\ res.op = "entry_init" /\ res.raised = "ValueError"
    /\ aio.arg.form = "str" /\ aio.form = "dict"
    /\ instances # <<>> /\ ~aio.initialized

\* C12: cascading delete is enforced for every delete issued after an
\* initialization whose schema holds the child table: once delete(id=x) on
\* the parent table has returned True, no row of the child table references
\* x: load_many on the child filtered by the referencing column = x returns
\* [] and load_single returns None.
C12_CascadeAfterDelete ==
    /\ (last.op = "delete" /\ last.query.table = "t" /\ last.ret = "True"
            /\ last.kwargs.order = <<"id">> /\ "u" \in Repositories)
          => \A r \in child : r[ColIdx("t_id")] # last.kwargs.id
    /\ (prev.op = "delete" /\ prev.query.table = "t" /\ prev.kwargs.order = <<"id">>
            /\ last.op \in {"load_many", "load_single"} /\ last.query.table = "u"
            /\ last.kwargs.order = <<"t_id">> /\ last.kwargs.t_id = prev.kwargs.id)
          => (last.out = <<>> /\ last.ret \in {"list", "None"})

\* C13: save_single of a new record (id None) whose UNIQUE column equals that
\* of an existing row fails: the existing row is unchanged, no row is added
\* and no success is reported.
C13_UniqueConflictFails ==
    (last.op = "save_single" /\ last.query.table = "u" /\ last.arg[1].id = NoId
        /\ last.arg[1].tag # None
        /\ \E r \in last.pre : r[ColIdx("tag")] = last.arg[1].tag)
        => (child = last.pre /\ last.ret # "True")

\* C14: save_single of a record whose foreign key references a row that does
\* not exist fails: the result is falsy, no row is added and the record's id
\* stays None.
C14_OrphanSaveFails ==
    (last.op = "save_single" /\ last.query.table = "u" /\ last.arg[1].id = NoId
        /\ last.arg[1].t_id # NoId /\ last.arg[1].t_id \notin RowIds(table))
        => (last.ret \in {"None", "False"} /\ child = last.pre /\ last.data[1].id = NoId)

\* C18: every connection on which a repository statement runs has foreign
\* keys turned on before that statement if and only if the schema of the
\* current initialization has a FOREIGN KEY member; this holds for every
\* opening of a connection, not only the first.
C18_ForeignKeysPerConnection ==
    last.op # "none"
        => \A j \in 1 .. Len(last.log) - 1 :
              last.log[j] = "connect"
                  => (last.log[j + 1] = "PRAGMA foreign_keys = ON;"
                          <=> _detect_foreign_keys(aio.schema))

\* C15: after save_many has returned True for records whose id was None,
\* every record has its id back-filled with the id of its own row: the ids
\* are pairwise distinct and load_single(id=r.id) returns the row saved for r.
C15_SaveManyBackfill ==
    (last.op = "save_many" /\ last.ret = "True"
        /\ \A j \in 1 .. Len(last.arg) : last.arg[j].id = NoId)
        => /\ \A j \in 1 .. Len(last.data) : last.data[j].id \in Ids
           /\ \A j, k \in 1 .. Len(last.data) : last.data[j].id = last.data[k].id => j = k
           /\ \A j \in 1 .. Len(last.data) : RowOf(last.data[j]) \in table

\* the rows a statement of custom_query returns on table content pre, in the
\* order of the engine
QueryRows(query, pre) ==
    IF query.kind = "SELECT COUNT(*)" THEN << <<Cardinality(pre)>> >>
    ELSE IF query.kind \in {"SELECT", "DELETE RETURNING"} /\ query.where.all
    THEN [j \in 1 .. Cardinality(pre) |->
             [i \in 1 .. Len(description(query)) |-> SortById(pre)[j][ColIdx(description(query)[i])]]]
    ELSE <<>>

\* C19: custom_query returns one result instance per row the query returns,
\* in row order, each with one field per result column, named after the
\* column and holding the row's value; it returns an empty list when the
\* query returns no rows or when anything fails (the engine, or the making of
\* the result type from the column names), and never raises.
C19_CustomQueryResults ==
    last.op = "custom_query"
        => LET names == description(last.query)
               rows == QueryRows(last.query, last.pre)
               failed == \/ last.oks # <<TRUE>>
                         \/ \E i \in 1 .. Len(names) : ~isidentifier(names[i])
                         \/ Cardinality(Range(names)) # Len(names)
           IN /\ last.ret = "list"
              /\ IF failed \/ rows = <<>>
                 THEN last.out = <<>>
                 ELSE /\ Len(last.out) = Len(rows)
                      /\ \A j \in 1 .. Len(rows) :
                            /\ DOMAIN last.out[j] = Range(names)
                            /\ \A i \in 1 .. Len(names) : last.out[j][names[i]] = rows[j][i]

\* SELECT name, id FROM t on a table of two rows
C19_Witness ==
    /\ last.op = "custom_query" /\ last.query.cols = <<"name", "id">>
    /\ Cardinality(last.pre) = 2 /\ Len(last.out) = 2
    /\ last.out[2].name = "Alice" /\ last.out[2].id = 2

\* the parenthesis depth in front of character k of a text
Depth(text, k) ==
    Cardinality({i \in 1 .. k - 1 : text[i] = "("}) - Cardinality({i \in 1 .. k - 1 : text[i] = ")"})
Balanced(text) ==
    /\ \A k \in 1 .. Len(text) : Depth(text, k) >= 0
    /\ Depth(text, Len(text) + 1) = 0
\* the positions of the commas of depth zero
Cuts(text) == {k \in 1 .. Len(text) : text[k] = "," /\ Depth(text, k) = 0}
\* the maximal segments without a comma of depth zero, in order
Segments(text) ==
    LET cuts == Cuts(text)
        cut(j) == CHOOSE k \in cuts : Cardinality({c \in cuts : c < k}) = j - 1
    IN [j \in 1 .. Cardinality(cuts) + 1 |->
           SubSeq(text, IF j = 1 THEN 1 ELSE cut(j - 1) + 1,
                        IF j = Cardinality(cuts) + 1 THEN Len(text) ELSE cut(j) - 1)]
\* ",".join(clauses)
RECURSIVE Join(_)
Join(clauses) ==
    IF clauses = <<>> THEN <<>>
    ELSE IF Len(clauses) = 1 THEN clauses[1]
    ELSE clauses[1] \o <<",">> \o Join(Tail(clauses))
\* a text without its white space
Unspace(text) == SelectSeq(text, LAMBDA c : c # " ")

\* C20 as stated: for every body with balanced parentheses the clauses
\* returned are exactly the maximal segments without a comma of depth zero,
\* in order (each without its surrounding white space), and concatenating
\* the clauses with commas gives back the body up to white space.
C20_SplitAtDepthZero ==
    (split.returned /\ Balanced(split.columns_str))
        => LET segments == Segments(split.columns_str)
           IN /\ split.columns = [j \in 1 .. Len(segments) |-> strip(segments[j])]
              /\ Unspace(Join(split.columns)) = Unspace(split.columns_str)

\* C20 (amended): the clauses returned are the maximal segments without a
\* comma of depth zero, in order and without their surrounding white space,
\* except that the last segment is left out when it is empty or white space
\* only; every comma inside a clause is inside parentheses; concatenating the
\* clauses with commas gives back the body up to white space and up to the
\* comma in front of a last segment that was left out.
C20_SplitAtDepthZeroKeepingNonEmptyLast ==
    (split.returned /\ Balanced(split.columns_str))
        => LET segments == Segments(split.columns_str)
               n == Len(segments)
               dropped == strip(segments[n]) = <<>>
               kept == IF dropped THEN n - 1 ELSE n
           IN /\ split.columns = [j \in 1 .. kept |-> strip(segments[j])]
              /\ \A j \in 1 .. Len(split.columns) :
                    Balanced(split.columns[j]) /\ Cuts(split.columns[j]) = {}
              /\ Unspace(Join(split.columns)) \o (IF dropped /\ n > 1 THEN <<",">> ELSE <<>>)
                    = Unspace(split.columns_str)

\* a body with a comma inside parentheses and a comma of depth zero
C20_Witness ==
    /\ split.returned
    /\ split.columns_str = <<"(", ",", ")", ",", "a">>
    /\ split.columns = << <<"(", ",", ")">>, <<"a">> >>

\* the script the caller wrote has been given to the parser
Parsed == sch.form = "str" /\ sch.step # "checked"

\* C21: for every valid DDL text of N well-formed CREATE TABLE statements,
\* SqlStrToDict.parse returns a schema of exactly N tables, and each table
\* has as many members as its body has top-level comma-separated clauses
C21_ParseCounts ==
    Parsed =>
        /\ sch.parsed.raised = ""
        /\ Len(sch.parsed.tables) = Len(sch.script)
        /\ \A i \in DOMAIN sch.parsed.tables :
               /\ sch.parsed.tables[i][1] = sch.script[i].table_name
               /\ Len(sch.parsed.tables[i][2]) = Len(sch.script[i].body)

\* a plain identifier: word characters only, the first one not a digit
isplain(name) ==
    /\ name # ""
    /\ CharsOf(name) \subseteq WordChars
    /\ CharAt(name, 1) \notin CharsOf(Digits)
\* a member is a data column when its name is a plain identifier; the bare
\* keywords UNIQUE and CHECK, which no column can have for a name, name table
\* constraints
isdatacolumn(name) == isplain(name) /\ upper(name) \notin {"UNIQUE", "CHECK"}
\* the data columns of a table definition, as a set of items
DataColumns(columns) == {columns[i] : i \in {j \in DOMAIN columns : isdatacolumn(columns[j][1])}}

\* C22: round trip: generate_sql of a structured schema followed by
\* SqlStrToDict.parse of the SQL text gives a schema with the same tables whose
\* data columns have the names and the definitions of the original
C22_RoundTrip ==
    sch.step \in {"reparsed", "loaded"} =>
        /\ sch.reparsed.raised = ""
        /\ keys(sch.reparsed.tables) = keys(sch.schema)
        /\ \A i \in DOMAIN sch.reparsed.tables :
               DataColumns(sch.reparsed.tables[i][2]) = DataColumns(sch.schema[i][2])

\* generate_sql has returned the script and the field lists of sch.schema
Generated == sch.step \in {"generated", "created", "rejected", "built", "reparsed", "loaded"}

\* C23: the field list generate_sql returns for a table is the table's data
\* columns in declaration order: every member named by a plain identifier,
\* whatever its spelling or letter case, and no constraint member
C23_FieldsAreDataColumns ==
    Generated =>
        \A i \in DOMAIN sch.schema :
            sch.dataclass_fields[i] =
                <<sch.schema[i][1], keys(SelectSeq(sch.schema[i][2], LAMBDA item : isdatacolumn(item[1])))>>

\* the validator has been called on sch.schema
Validated == sch.step \in {"validated"} \/ Generated \/ sch.validated.raised # ""
\* the type a definition declares: its first word in upper case, without a
\* parenthesized suffix ("" when the definition has no word)
DeclaredType(definition) ==
    IF str_split(definition) = <<>> THEN ""
    ELSE LET word == upper(str_split(definition)[1])
         IN IF find(word, "(", 1) = 0 THEN word ELSE SubSeq(word, 1, find(word, "(", 1) - 1)
\* the items <<table, column, definition>> of the data columns of a schema
\* whose type is not a recognized one, in the order of the schema
Unrecognized(schema) ==
    SelectSeq(items_of(schema, 1),
              LAMBDA item : /\ \A keyword \in {"PRIMARY KEY", "FOREIGN KEY", "CHECK", "UNIQUE"} :
                                   ~startswith(item[2], keyword)
                            /\ DeclaredType(item[3]) \notin default_sql_types)

\* C24: validate raises the invalid-column-type error, naming table, column
\* and type, at the first data column whose declared type is not in the
\* recognized set, and returns True only when every data column passes
C24_ValidateRejectsUnrecognized ==
    Validated =>
        IF Unrecognized(sch.schema) = <<>>
        THEN sch.validated.returned /\ sch.validated.raised = ""
        ELSE /\ ~sch.validated.returned
             /\ sch.validated.raised = "ValueError"
             /\ sch.validated.table = Unrecognized(sch.schema)[1][1]
             /\ sch.validated.column = Unrecognized(sch.schema)[1][2]
             /\ sch.validated.type = DeclaredType(Unrecognized(sch.schema)[1][3])

\* C25: load_single called with zero filters on a table that has rows returns
\* a record for one of the rows of the table: it does not fail and does not
\* return None
C25_LoadSingleNoFilters ==
    (last.op = "load_single" /\ Keys(last.kwargs) = {} /\ last.pre # {})
        => /\ last.ret = "record"
           /\ Len(last.out) = 1
           /\ \A j \in 1 .. Len(last.out) : RowOf(last.out[j]) \in last.pre

\* C26: load_single and load_many convert a row by pairing the i-th data
\* column of the table, constraint members excluded, with the i-th value of
\* the row: for every structured schema, also one that declares a constraint
\* member before a data column, each field of the record returned is the
\* stored value of the column of that name
C26_RecordOfRow ==
    sch.step = "loaded" =>
        \A i \in DOMAIN sch.loaded :
            /\ sch.loaded[i].returned = "record"
            /\ \A f \in DOMAIN sch.loaded[i].record :
                   sch.loaded[i].record[f][2] = StoredValue(sch.loaded[i].record[f][1])

Built == sch.step \in {"built", "reparsed", "loaded"}
\* the field type of the spec for a declared SQL type
TypeOfDeclared(sql_type) ==
    IF sql_type = "INTEGER" THEN "int"
    ELSE IF sql_type \in {"REAL", "DECIMAL"} THEN "float"
    ELSE IF sql_type = "BLOB" THEN "bytes"
    ELSE IF sql_type = "BOOLEAN" THEN "bool"
    ELSE "str"

\* C28: the record type of a table has exactly one field per data column, in
\* declaration order, each with default None, and the type of a field is
\* determined by the declared SQL type of its column (INTEGER: integer, TEXT
\* and TIMESTAMP: string, REAL and DECIMAL: float, BLOB: bytes, BOOLEAN:
\* boolean, anything else: string), except that a field named id is an integer
C28_FieldTypesFromDeclaredTypes ==
    Built =>
        \A i \in DOMAIN sch.schema :
            LET data_columns == SelectSeq(sch.schema[i][2], LAMBDA item : isdatacolumn(item[1]))
                dataclass == sch.dataclasses[i][2]
            IN /\ sch.dataclasses[i][1] = sch.schema[i][1]
               /\ Len(dataclass) = Len(data_columns)
               /\ \A f \in DOMAIN dataclass :
                      /\ dataclass[f].name = data_columns[f][1]
                      /\ dataclass[f].default = None
                      /\ dataclass[f].type = IF dataclass[f].name = "id" THEN "int"
                                             ELSE TypeOfDeclared(DeclaredType(data_columns[f][2]))

\* C29: AioRepositor is a singleton until clean_up: a call AioRepositor(...)
\* while an instance exists returns that instance with the schema, folder,
\* database name and index hints it was constructed with, whatever the
\* arguments of the call and also when its initialization has failed;
\* awaiting an initialized instance returns its repositories mapping and sends
\* nothing to the engine; clean_up drops the instance, and the construction
\* after it makes a new instance that is not initialized
C29_SingletonUntilCleanUp ==
    [][/\ (aio.exists /\ res'.op = "AioRepositor") => aio' = aio
       /\ (aio.initialized /\ res'.op = "entry_init")
              => /\ res'.repositories = aio.repositories
                 /\ ~res'.is_none
                 /\ res'.raised = ""
                 /\ res'.log = <<>>
                 /\ UNCHANGED <<aio, dbc, conn, instances, table, child>>
       /\ res'.op = "clean_up" => ~aio'.exists
       /\ (~aio.exists /\ res'.op = "AioRepositor")
              => /\ aio'.exists
                 /\ ~aio'.initialized
                 /\ ~aio'.has_repositories]_vars

\* an instance constructed with a folder, database name and index hints of
\* its own has been initialized and is awaited again
C29_Witness ==
    /\ res.op = "entry_init" /\ aio.initialized /\ res.log = <<>>
    /\ res.repositories # <<>> /\ res.repositories = aio.repositories
    /\ aio.folder_name = "data" /\ aio.db_name = "app.db" /\ aio.indexes = "name"

\* C30: the connection manager belongs to the first initializer for the life
\* of the process: once DatabaseConnection has been constructed, every later
\* construction, also the one of a new AioRepositor after clean_up with
\* another folder, database name or schema, returns the same object with its
\* database path and foreign-key flag unchanged
C30_ConnectionManagerKept ==
    [][dbc.exists => dbc' = dbc]_vars

\* an instance made after clean_up has been initialized with another database
\* path and a schema with another foreign-key flag than the manager's
C30_Witness ==
    /\ res.op = "entry_init" /\ aio.initialized /\ res.log # <<>>
    /\ dbc.exists
    /\ dbc.db_path # db_path_of(aio)
    /\ dbc.has_foreign_keys # _detect_foreign_keys(aio.schema)

\* the statement of a custom_query modifies data
Modifying == last.op = "custom_query" /\ last.query.kind \in {"DELETE", "DELETE RETURNING"}

\* C34: custom_query never commits: for a single caller, after custom_query
\* returns for a data-modifying statement, the content of the store is what
\* it was before the call, and the call returns an empty list
C34_CustomQueryNeverCommits ==
    Modifying => /\ table = last.pre
                 /\ last.ret = "list"
                 /\ last.out = <<>>

\* C34, amended: after custom_query returns for a data-modifying statement
\* the content of the store is what it was before the call; the list
\* returned is empty when the statement has no RETURNING clause, affects no
\* row or fails, and else holds one record per row of the RETURNING clause,
\* rows that are not in the store afterwards
C34_CustomQueryNeverCommitsReturningRows ==
    Modifying => /\ table = last.pre
                 /\ last.ret = "list"
                 /\ IF last.query.kind = "DELETE RETURNING" /\ last.oks = <<TRUE>>
                    THEN /\ Len(last.out) = Cardinality(last.pre)
                         /\ \A j \in 1 .. Len(last.out) : RowOf(last.out[j]) \in last.pre
                    ELSE last.out = <<>>

\* DELETE FROM t has been executed on a table with rows, which are still there
C34_Witness ==
    /\ Modifying /\ last.query.kind = "DELETE" /\ last.oks = <<TRUE>>
    /\ "DELETE" \in Range(last.log)
    /\ last.pre # {} /\ table = last.pre /\ last.out = <<>>

\* C31: when two or more repository operations run concurrently on the
\* shared connection manager, no operation issues a statement, a fetch, a
\* commit or a rollback on a connection that the scope exit of another
\* operation has closed, and no scope exit closes a connection that another
\* operation in flight is using
C31_NoUseAfterClose ==
    /\ \A t \in Tasks : ~co.task[t].closed_use
    /\ \A t, o \in Tasks :
           (t # o /\ co.task[t].pc = "closed"
                 /\ co.task[o].pc \in {"begin", "execute", "fetchall", "commit", "rollback"})
               => co.task[o].conn # co.task[t].closing

\* C32: at any moment at most one connection opened by the connection
\* manager is open, and a connection it has opened is closed once the
\* operations have returned: none is left open that the manager no longer
\* refers to
C32_OneConnectionAndClosed ==
    /\ Cardinality({k \in Connections : co.connection[k].state = "open"}) <= 1
    /\ (\A t \in Tasks : co.task[t].pc \in {"idle", "done"})
           => \A k \in Connections : co.connection[k].state # "open"

\* C33: under any interleaving of concurrent operations, when delete or
\* save_single returns True its change has been committed to the store: no
\* rollback of another caller's failed operation has dropped it
C33_TrueMeansCommitted ==
    \A t \in Tasks :
        (co.task[t].pc = "done" /\ co.task[t].op \in {"delete", "save_single"}
             /\ co.task[t].ret = "True")
            => t \in co.committed

====
